---- MODULE Spec2Model ----
(***************************************************************************)
(* Storarc: local vector cache synchronisation and retrieval-augmented     *)
(* query engine, with the on-chain VectorRegistry it synchronises against. *)
(*                                                                         *)
(* Asynchronous TypeScript code is modelled at the granularity of its      *)
(* suspension points: one action is the synchronous run of a handler from  *)
(* one `await` to the next.  Move entry functions are transactions and are *)
(* modelled as one atomic action each (an abort reverts every effect).     *)
(***************************************************************************)
EXTENDS Integers, Sequences, FiniteSets, TLC

(***************************************************************************)
(* Bounds of the model.                                                    *)
(***************************************************************************)
\* registry writes stop once the version counter reaches this value
MaxVersion == 3
\* initialize() creates at most this many MemoryVectorStore objects
MaxStores == 2
\* a similarity search returns at most this many hits (topK)
MaxHits == 3
\* the longest of the short texts that are chunked
MaxTextLen == 5

(***************************************************************************)
(* Input domains.                                                          *)
(***************************************************************************)
Senders == {"alice", "bob"}
FileNames == {"a.txt", "b.txt"}
VectorBlobIds == {"v1", "v2"}
DocumentBlobIds == {"d1"}
ChunkCounts == {0, 1, 2}
\* the callers of syncIfStale(): two background-timer ticks that may overlap,
\* and the registry-event subscription
Callers == {"tick1", "tick2", "event"}
TimerCallers == {"tick1", "tick2"}
\* the overlapping operations on the VectorStoreService singleton: two
\* addDocuments() calls, initialize(), similaritySearch() and delete()
Adders == {"addA", "addB"}
StoreProcs == {"addA", "addB", "init", "search", "delete"}
\* the address the server signs its registry transactions with (config.sui.privateKey)
ServerAddress == "alice"

\* Move abort codes, vector_registry.move:78-81
E_NOT_OWNER == 1
E_DOCUMENT_EXISTS == 2
E_DOCUMENT_NOT_FOUND == 3
E_INVALID_CHUNK_COUNT == 4
\* config.rag.chunkSize and config.rag.chunkOverlap (their defaults)
ConfigChunkSize == 1000
ConfigChunkOverlap == 200
\* tx.abort of a transaction that committed (no abort code)
NO_ABORT == {}

VARIABLES
    \* ---- VectorRegistry (on chain)
    documents,          \* VectorRegistry.documents : Table<String, DocumentVectorInfo>
    total_documents,    \* VectorRegistry.total_documents
    version,            \* VectorRegistry.version
    tx,                 \* the last registry transaction and its outcome
    \* ---- Sync Engine (the cache's vector store)
    engineState,        \* Uninitialized, Loading, Ready, Resyncing
    index,              \* the readable in-memory index: a sequence of entries
    localVersion,       \* the version of the readable index
    snapshot,           \* the persisted snapshot file
    call,               \* per caller of syncIfStale(): where it is and what it holds
    result,             \* per caller: how its last syncIfStale() ended
    \* ---- CacheManager
    isInitialized,      \* CacheManager.isInitialized
    eventSync,          \* whether the event subscription is running
    status,             \* the last status report (GET /api/status, showStatus)
    \* ---- VectorStoreService (src/services/vector-store.ts)
    store,              \* this.store: the current MemoryVectorStore object, 0 = null
    memoryVectors,      \* memoryVectors of every MemoryVectorStore object created
    storageFile,        \* the store directory and memory-store.json in it
    unlinked,           \* the memory-store.json that delete() unlinked, while descriptors are open on it
    pc,                 \* per operation: the await it is suspended at
    ref,                \* per operation: the store object its library call runs on
    data,               \* per operation: the arguments it was called with, the text it read or is writing
    fd,                 \* per operation: its descriptor of memory-store.json: none, linked (the file of that name), unlinked
    searched,           \* the last similaritySearch(): its arguments, the entries it read, how it ended
    committed,          \* every content a store object had after a whole operation
    \* ---- RAGService.query
    queryPc,            \* where query() is: idle, search, fetch, generate, returned, threw
    searchResults,      \* the hits of similaritySearch, by descending score
    fetches,            \* per hit: its blob fetch is pending, ok or failed
    completion,         \* the hits' indices in the order their fetches completed
    context,            \* the context block handed to the generation step
    ragResult,          \* the RAGResult returned
    queryError,         \* the step whose error query() rethrew
    \* ---- RAGService.ingestDocument
    ingestPc,           \* where ingestDocument() is: idle, upload, add, returned, threw
    uploadOutcome,      \* how walrusClient.uploadBlob ended: none, ok, failed
    blob,               \* what uploadBlob returned: the blob id and the time of the upload
    storedDoc,          \* the StoredDocument returned
    \* ---- the entries of the VectorStoreService and their serialization
    embeddingModel,     \* config.openai.embeddingModel of the running process
    roundTrip,          \* the last serializeVectors() input, its text, and the text deserialized
    \* ---- RAGService.chunkDocument
    chunkIn,            \* the content and config.rag.chunkSize / chunkOverlap of a call
    chunkOut,           \* the chunks it returned, << >> before it has returned
    \* ---- CacheManager, every call followed from await to await
    cmCalls,            \* per call of initialize() / shutdown() / forceSync(): the await it is at
    syncInterval,       \* CacheManager.syncInterval refers to a timer (is not null)
    leakedTimers,       \* how many interval timers are set, not cleared and no longer referred to
    disableAutoSync,    \* process.env.DISABLE_AUTO_SYNC is set
    lastCalled,         \* the call begun last: none, initialize, shutdown
    \* ---- ChatMetadataStore (services/chat-metadata-store.ts), one user
    indexBlobs,         \* the index blobs uploaded to the blob store; the blob id is the position
    serverCache,        \* serverCache.get(userAddr): the cached index blob id, 0 = none
    chatCalls,          \* per call of a ChatMetadataStore method: where it is, what it holds
    \* ---- getUserChatService (lib/chat-api-helpers.ts), one user
    userRegistryCache,  \* userRegistryCache.get(userAddr): a registry id, 0 = undefined
    registriesCreated,  \* how many registries createRegistry() has created
    serviceCalls,       \* per call of getUserChatService: where it is, the registry id it bound
    cacheTouched        \* clearUserRegistryCache() or setCachedRegistryId() was called

regVars == <<documents, total_documents, version, tx>>
engineVars == <<engineState, index, localVersion, snapshot, call, result>>
cmVars == <<isInitialized, eventSync, cmCalls, syncInterval, leakedTimers,
           disableAutoSync, lastCalled>>

storeVars == <<store, memoryVectors, storageFile, unlinked, pc, ref, data, fd, searched,
              committed>>

queryVars == <<queryPc, searchResults, fetches, completion, context, ragResult,
               queryError>>

ingestVars == <<ingestPc, uploadOutcome, blob, storedDoc>>

indexVars == <<embeddingModel, roundTrip>>

chunkVars == <<chunkIn, chunkOut>>

chatVars == <<indexBlobs, serverCache, chatCalls>>

svcVars == <<userRegistryCache, registriesCreated, serviceCalls, cacheTouched>>

vars == <<regVars, engineVars, cmVars, status, storeVars, queryVars, ingestVars, indexVars, chunkVars, chatVars, svcVars>>

(***************************************************************************)
(* VectorRegistry (contracts/sources/vector_registry.move)                 *)
(***************************************************************************)
\* table::contains
table_contains(t, k) == k \in DOMAIN t

\* table::add
table_add(t, k, v) == [x \in DOMAIN t \cup {k} |-> IF x = k THEN v ELSE t[x]]

\* table::remove
table_keep(t, k) == t
table_remove(t, k) == [x \in DOMAIN t \ {k} |-> t[x]]

\* the version counter after one committed write
NoBump(v) == v
BumpVersion(v) == v + 1

\* the outcome of a transaction: abort = {} when it committed, {code} when it aborted
Tx(fn, code) == [fn |-> fn, abort |-> code]

Committed(t) == t.abort = NO_ABORT

\* create_registry
RegistryInit ==
    /\ documents = << >>
    /\ total_documents = 0
    /\ version = 1
    /\ tx = Tx("create_registry", NO_ABORT)

\* doc_info.owner == sender
AnySender(doc_info, sender) == TRUE
IsOwner(doc_info, sender) == doc_info.owner = sender

Abort(fn, code) ==
    /\ tx' = Tx(fn, {code})
    /\ UNCHANGED <<documents, total_documents, version>>

add_document(sender, filename, vector_blob_id, document_blob_id, chunk_count) ==
    /\ version < MaxVersion
    /\ IF ~(chunk_count > 0)
       THEN Abort("add_document", E_INVALID_CHUNK_COUNT)
       ELSE IF table_contains(documents, filename)
       THEN Abort("add_document", E_DOCUMENT_EXISTS)
       ELSE /\ documents' = table_add(documents, filename,
                                [vector_blob_id |-> vector_blob_id,
                                 document_blob_id |-> document_blob_id,
                                 chunk_count |-> chunk_count,
                                 owner |-> sender])
            /\ total_documents' = total_documents + 1
            /\ version' = BumpVersion(version)
            /\ tx' = Tx("add_document", NO_ABORT)

update_document_vectors(sender, filename, new_vector_blob_id, new_chunk_count) ==
    /\ version < MaxVersion
    /\ IF ~table_contains(documents, filename)
       THEN Abort("update_document_vectors", E_DOCUMENT_NOT_FOUND)
       ELSE IF ~IsOwner(documents[filename], sender)
       THEN Abort("update_document_vectors", E_NOT_OWNER)
       ELSE IF ~(new_chunk_count > 0)
       THEN Abort("update_document_vectors", E_INVALID_CHUNK_COUNT)
       ELSE /\ documents' = [documents EXCEPT
                                ![filename].vector_blob_id = new_vector_blob_id,
                                ![filename].chunk_count = new_chunk_count]
            /\ version' = BumpVersion(version)
            /\ tx' = Tx("update_document_vectors", NO_ABORT)
            /\ UNCHANGED total_documents

remove_document(sender, filename) ==
    /\ version < MaxVersion
    /\ IF ~table_contains(documents, filename)
       THEN Abort("remove_document", E_DOCUMENT_NOT_FOUND)
       ELSE IF ~IsOwner(documents[filename], sender)
       THEN Abort("remove_document", E_NOT_OWNER)
       ELSE /\ documents' = table_remove(documents, filename)
            /\ total_documents' = total_documents - 1
            /\ version' = BumpVersion(version)
            /\ tx' = Tx("remove_document", NO_ABORT)

AddDocument ==
    \E s \in Senders, f \in FileNames, vb \in VectorBlobIds,
       db \in DocumentBlobIds, n \in ChunkCounts :
        add_document(s, f, vb, db, n)

UpdateDocumentVectors ==
    \E s \in Senders, f \in FileNames, vb \in VectorBlobIds, n \in ChunkCounts :
        update_document_vectors(s, f, vb, n)

RemoveDocument ==
    \E s \in Senders, f \in FileNames : remove_document(s, f)

RegistryWrite == AddDocument \/ UpdateDocumentVectors \/ RemoveDocument

(***************************************************************************)
(* Blob Store: content addressed, a blob id determines the blob's content. *)
(***************************************************************************)
\* the number of embedded chunks serialized in a vector blob
ChunksIn(id) == IF id = "v1" THEN 1 ELSE 2

\* get(blobId) followed by deserialization: the entries of a vector blob
VectorBlob(id) == [i \in 1..ChunksIn(id) |-> [blobId |-> id, chunkIndex |-> i - 1]]

(***************************************************************************)
(* Sync Engine: the cache's vector store (services/vector-store of the     *)
(* client: initialize, getStats, syncIfStale).                             *)
(***************************************************************************)
\* the order in which the registry's documents are listed
FileOrder == <<"a.txt", "b.txt">>

\* the full current document list of the registry, as vector blob ids
DocumentList(docs) ==
    LET names == SelectSeq(FileOrder, LAMBDA f : f \in DOMAIN docs)
    IN  [i \in 1..Len(names) |-> docs[names[i]].vector_blob_id]

\* stale iff the registry's version is strictly greater than the local one
isStaleOrEqual(registryVersion, cacheVersion) == registryVersion >= cacheVersion
isStale(registryVersion, cacheVersion) == registryVersion > cacheVersion

IdleCall == [pc |-> "idle", ver |-> 0, todo |-> << >>, staging |-> << >>,
             before |-> [entries |-> << >>, version |-> 0]]

\* the callers whose syncIfStale() holds the single-flight lock
InFlight == {c \in Callers : call[c].pc \in {"stats", "list", "fetch"}}

\* the callers that are rebuilding the index
Resyncing == {c \in Callers : call[c].pc \in {"list", "fetch"}}

\* single-flight lock: a syncIfStale() is already running
LockNeverHeld == FALSE
LockHeld == InFlight # {}

\* the state of the engine once the callers in `busy` are (still) rebuilding
StateWith(busy) == IF busy = {} THEN "Ready" ELSE "Resyncing"

\* the readable index after a resync was aborted: the prior snapshot
PartialIndex(c) == call[c].staging
IndexAfterAbort(c) == index

\* the readable index after the registry could not be reached
EmptyIndex(c) == << >>
IndexAfterRegistryUnavailable(c) == index

\* the local version a completed resync adopts: the registry version it read
NextLocalVersion(c) == localVersion + 1
SyncedVersion(c) == call[c].ver

\* syncIfStale(): entry.  A call that finds a resync running waits for it.
SyncIfStaleEnter(c) ==
    /\ call[c].pc = "idle"
    /\ engineState \in {"Ready", "Resyncing"}
    /\ IF LockHeld
       THEN call' = [call EXCEPT ![c].pc = "join"]
       ELSE call' = [call EXCEPT ![c].pc = "stats",
                                 ![c].before = [entries |-> index,
                                                version |-> localVersion]]
    /\ UNCHANGED <<engineState, index, localVersion, snapshot, result>>

\* the call of c ends with `outcome`; the callers waiting on it end with it too
Complete(c, outcome) ==
    /\ call' = [x \in Callers |->
                  IF x = c \/ call[x].pc = "join" THEN IdleCall ELSE call[x]]
    /\ result' = [outcome |-> outcome, fetched |-> Len(call[c].staging),
                  from |-> call[c].before.version]
    /\ engineState' = StateWith(Resyncing \ {c})

\* the registry's stats arrive: isStale() decides whether to resync
SyncStats(c) ==
    /\ call[c].pc = "stats"
    /\ IF isStale(version, localVersion)
       THEN /\ call' = [call EXCEPT ![c].pc = "list", ![c].ver = version]
            /\ engineState' = "Resyncing"
            /\ UNCHANGED result
       ELSE Complete(c, "fresh")
    /\ UNCHANGED <<index, localVersion, snapshot>>

\* the registry's document list arrives
SyncList(c) ==
    /\ call[c].pc = "list"
    /\ call' = [call EXCEPT ![c].pc = "fetch", ![c].todo = DocumentList(documents)]
    /\ UNCHANGED <<engineState, index, localVersion, snapshot, result>>

\* a Registry call of the resync fails: RegistryUnavailable
SyncRegistryUnavailable(c) ==
    /\ call[c].pc \in {"stats", "list"}
    /\ Complete(c, "registry_unavailable")
    /\ index' = IndexAfterRegistryUnavailable(c)
    /\ UNCHANGED <<localVersion, snapshot>>

\* one vector blob is fetched and deserialized into the snapshot being built
SyncFetch(c) ==
    /\ call[c].pc = "fetch"
    /\ call[c].todo # << >>
    /\ call' = [call EXCEPT ![c].todo = Tail(@),
                            ![c].staging = @ \o VectorBlob(Head(call[c].todo))]
    /\ UNCHANGED <<engineState, index, localVersion, snapshot, result>>

\* a blob fetch fails: the whole resync is aborted
SyncFetchFails(c) ==
    /\ call[c].pc = "fetch"
    /\ call[c].todo # << >>
    /\ Complete(c, "blob_fetch_failed")
    /\ index' = IndexAfterAbort(c)
    /\ UNCHANGED <<localVersion, snapshot>>

\* every blob was fetched: swap the readable snapshot, persist it
SyncCommit(c) ==
    /\ call[c].pc = "fetch"
    /\ call[c].todo = << >>
    /\ index' = call[c].staging
    /\ localVersion' = SyncedVersion(c)
    /\ snapshot' = [exists |-> TRUE, version |-> SyncedVersion(c),
                    entries |-> call[c].staging]
    /\ Complete(c, "synced")

\* initialize(): load the persisted snapshot, or bootstrap an empty one
EngineInitialize ==
    /\ IF snapshot.exists
       THEN /\ index' = snapshot.entries
            /\ localVersion' = snapshot.version
            /\ UNCHANGED snapshot
       ELSE /\ index' = << >>
            /\ localVersion' = 0
            /\ snapshot' = [exists |-> TRUE, version |-> 0, entries |-> << >>]
    /\ engineState' = StateWith(Resyncing)
    /\ UNCHANGED <<call, result>>

EngineInit ==
    /\ engineState = "Uninitialized"
    /\ index = << >>
    /\ localVersion = 0
    /\ snapshot = [exists |-> FALSE, version |-> 0, entries |-> << >>]
    /\ call = [c \in Callers |-> IdleCall]
    /\ result = [outcome |-> "none", fetched |-> 0, from |-> 0]

(***************************************************************************)
(* CacheManager (cache manager service).  Every call of initialize(),      *)
(* shutdown() and forceSync() is followed from await to await, under any   *)
(* overlap: the call on module load, a further initialize(), the two       *)
(* signal handlers, a forceSync().                                         *)
(***************************************************************************)
MaxTimers == 2

InitializeCalls == {"load", "again"}
ShutdownCalls == {"SIGTERM", "SIGINT"}
ForceSyncCalls == {"forceSync"}
ManagerCalls == InitializeCalls \cup ShutdownCalls \cup ForceSyncCalls

\* a call that is not suspended at an await: not begun, returned or thrown
AtRest(c) == cmCalls[c] = "idle"

\* the interval timers that are set and not cleared: the one the handle
\* refers to and those whose handle was overwritten
LiveTimers == leakedTimers + (IF syncInterval THEN 1 ELSE 0)

\* the calls awaiting vectorStoreService.initialize()
InitializingStore == {c \in ManagerCalls : cmCalls[c] = "vectorStoreInit"}

\* a manager on which nothing was called yet, DISABLE_AUTO_SYNC not set
CacheManagerDefaultEnv ==
    /\ isInitialized = FALSE
    /\ eventSync = FALSE
    /\ cmCalls = [c \in ManagerCalls |-> "idle"]
    /\ syncInterval = FALSE
    /\ leakedTimers = 0
    /\ disableAutoSync = FALSE
    /\ lastCalled = "none"

\* a manager on which nothing was called yet, in either environment
CacheManagerInit ==
    /\ isInitialized = FALSE
    /\ eventSync = FALSE
    /\ cmCalls = [c \in ManagerCalls |-> "idle"]
    /\ syncInterval = FALSE
    /\ leakedTimers = 0
    /\ disableAutoSync \in BOOLEAN
    /\ lastCalled = "none"

\* vectorStoreService.initialize() is called
EngineInitializeCalled ==
    /\ engineState' = IF engineState = "Uninitialized" THEN "Loading" ELSE engineState
    /\ UNCHANGED <<index, localVersion, snapshot, call, result>>

\* vectorStoreService.initialize() threw: a store that was loading for the
\* first time is not loaded, unless another call is still loading it
EngineInitializeFails(c) ==
    /\ engineState' = IF engineState = "Loading" /\ InitializingStore = {c}
                      THEN "Uninitialized" ELSE engineState
    /\ UNCHANGED <<index, localVersion, snapshot, call, result>>

\* the guard of initialize(): return when the manager is already initialized
AlreadyInitialized == isInitialized

\* initialize(): the guard, then up to `await vectorStoreService.initialize()`
InitializeCalled(c) ==
    /\ AtRest(c)
    /\ LiveTimers + Cardinality({x \in InitializeCalls : cmCalls[x] = "vectorStoreInit"})
         < MaxTimers
    /\ IF AlreadyInitialized
       THEN /\ cmCalls' = [cmCalls EXCEPT ![c] = "idle"]
            /\ UNCHANGED engineVars
       ELSE /\ cmCalls' = [cmCalls EXCEPT ![c] = "vectorStoreInit"]
            /\ EngineInitializeCalled
    /\ UNCHANGED <<isInitialized, eventSync, syncInterval, leakedTimers,
                   disableAutoSync>>

\* vectorStoreService.initialize() threw: initialize() logs and rethrows;
\* no timer was set and isInitialized is as it was
VectorStoreInitializeFails(c) ==
    /\ cmCalls[c] = "vectorStoreInit"
    /\ EngineInitializeFails(c)
    /\ cmCalls' = [cmCalls EXCEPT ![c] = "idle"]
    /\ UNCHANGED <<isInitialized, eventSync, syncInterval, leakedTimers,
                   disableAutoSync>>

\* vectorStoreService.initialize() returned: startBackgroundSync() sets a new
\* interval timer and stores its handle; then `await eventSyncService.start()`,
\* or, with DISABLE_AUTO_SYNC, the manager is initialized in the same run
startBackgroundSync(c) ==
    /\ cmCalls[c] = "vectorStoreInit"
    /\ EngineInitialize
    /\ leakedTimers' = LiveTimers
    /\ syncInterval' = TRUE
    /\ IF disableAutoSync
       THEN /\ isInitialized' = TRUE
            /\ cmCalls' = [cmCalls EXCEPT ![c] = "idle"]
       ELSE /\ cmCalls' = [cmCalls EXCEPT ![c] = "eventStart"]
            /\ UNCHANGED isInitialized
    /\ UNCHANGED <<eventSync, disableAutoSync>>

\* eventSyncService.start() returned (started) or threw (caught): the
\* manager is initialized
EventSyncStartSettles(c) ==
    /\ cmCalls[c] = "eventStart"
    /\ \E started \in BOOLEAN : eventSync' = (eventSync \/ started)
    /\ isInitialized' = TRUE
    /\ cmCalls' = [cmCalls EXCEPT ![c] = "idle"]
    /\ UNCHANGED <<syncInterval, leakedTimers, disableAutoSync>>
    /\ UNCHANGED engineVars

\* shutdown(), whatever the manager is doing: clear the timer the handle
\* refers to, then `await eventSyncService.stop()`
ShutdownCalled(c) ==
    /\ AtRest(c)
    /\ syncInterval' = FALSE
    /\ cmCalls' = [cmCalls EXCEPT ![c] = "eventStop"]
    /\ UNCHANGED <<isInitialized, eventSync, leakedTimers, disableAutoSync>>
    /\ UNCHANGED engineVars

\* eventSyncService.stop() returned or threw (caught)
EventSyncStopSettles(c) ==
    /\ cmCalls[c] = "eventStop"
    /\ eventSync' = FALSE
    /\ isInitialized' = FALSE
    /\ cmCalls' = [cmCalls EXCEPT ![c] = "idle"]
    /\ UNCHANGED <<syncInterval, leakedTimers, disableAutoSync>>
    /\ UNCHANGED engineVars

\* forceSync(): `await vectorStoreService.initialize()`, at any time
ForceSyncCalled(c) ==
    /\ AtRest(c)
    /\ cmCalls' = [cmCalls EXCEPT ![c] = "vectorStoreInit"]
    /\ EngineInitializeCalled
    /\ UNCHANGED <<isInitialized, eventSync, syncInterval, leakedTimers,
                   disableAutoSync>>

\* vectorStoreService.initialize() returned: forceSync() logs the stats
ForceSyncSettles(c) ==
    /\ cmCalls[c] = "vectorStoreInit"
    /\ EngineInitialize
    /\ cmCalls' = [cmCalls EXCEPT ![c] = "idle"]
    /\ UNCHANGED <<isInitialized, eventSync, syncInterval, leakedTimers,
                   disableAutoSync>>

\* vectorStoreService.initialize() threw: forceSync() throws
ForceSyncFails(c) ==
    /\ cmCalls[c] = "vectorStoreInit"
    /\ EngineInitializeFails(c)
    /\ cmCalls' = [cmCalls EXCEPT ![c] = "idle"]
    /\ UNCHANGED <<isInitialized, eventSync, syncInterval, leakedTimers,
                   disableAutoSync>>

\* the steps of one initialize() call after its first
InitializeResumes(c) ==
    \/ VectorStoreInitializeFails(c)
    \/ startBackgroundSync(c)
    \/ EventSyncStartSettles(c)

\* the steps of one forceSync() call
ForceSyncStep(c) ==
    \/ ForceSyncCalled(c)
    \/ ForceSyncSettles(c)
    \/ ForceSyncFails(c)

\* every call, under any overlap; lastCalled records which of initialize()
\* and shutdown() was begun last
LifecycleStep ==
    \/ \E c \in InitializeCalls : InitializeCalled(c) /\ lastCalled' = "initialize"
    \/ \E c \in ShutdownCalls : ShutdownCalled(c) /\ lastCalled' = "shutdown"
    \/ /\ \/ \E c \in InitializeCalls : InitializeResumes(c)
          \/ \E c \in ShutdownCalls : EventSyncStopSettles(c)
          \/ \E c \in ForceSyncCalls : ForceSyncStep(c)
       /\ UNCHANGED lastCalled

\* an interval timer that was set and not cleared fires: the callback calls
\* syncIfStale(), whether or not the callback of an earlier tick is still
\* running
BackgroundSyncTick(c) ==
    /\ LiveTimers > 0
    /\ SyncIfStaleEnter(c)
    /\ UNCHANGED cmVars

\* a registry-write notification arrives on the event subscription
EventTrigger ==
    /\ eventSync
    /\ SyncIfStaleEnter("event")
    /\ UNCHANGED cmVars

\* the callback of a tick catches what syncIfStale() throws and logs it: the
\* interval timers are left as they are
TimerCleared == [handle |-> FALSE, leaked |-> 0]
TimerAfterFailure == [handle |-> syncInterval, leaked |-> leakedTimers]

\* the syncIfStale() of a tick fails (Registry or Blob Store not reachable)
BackgroundSyncFails(c) ==
    /\ SyncRegistryUnavailable(c) \/ SyncFetchFails(c)
    /\ syncInterval' = TimerAfterFailure.handle
    /\ leakedTimers' = TimerAfterFailure.leaked
    /\ UNCHANGED <<isInitialized, eventSync, cmCalls, disableAutoSync, lastCalled>>

\* the syncIfStale() of a tick gets the answer it awaits
BackgroundSyncProceeds(c) ==
    /\ SyncStats(c) \/ SyncList(c) \/ SyncFetch(c) \/ SyncCommit(c)
    /\ UNCHANGED cmVars

(***************************************************************************)
(* Status report (GET /api/status, CLI showStatus)                         *)
(***************************************************************************)
\* getRegistryStats() is awaited first, then the local stats are read: the
\* registry version reported is the version the registry had when it answered
GetStatus ==
    /\ engineState \in {"Ready", "Resyncing"}
    /\ \E registryVersion \in 1..version :
         status' = [registry |-> registryVersion,
                    localCache |-> localVersion,
                    isStale |-> isStale(registryVersion, localVersion)]
    /\ UNCHANGED <<regVars, engineVars, cmVars, storeVars, queryVars, ingestVars, indexVars, chunkVars, chatVars, svcVars>>

StatusInit == status = [registry |-> 0, localCache |-> 0, isStale |-> FALSE]

(***************************************************************************)
(* VectorStoreService (src/services/vector-store.ts) over langchain's      *)
(* MemoryVectorStore.  fs.readFile, fs.writeFile and fs.rm are followed    *)
(* one file system call at a time (open, fstat, read; open, write, close;  *)
(* rmdir, readdir, lstat, unlink, rmdir).  An action is one such call      *)
(* taking effect together with the synchronous run that its return         *)
(* resumes, or a synchronous run by itself where it changes what other     *)
(* operations read.  The close of a descriptor changes nothing that        *)
(* another operation reads.                                                *)
(***************************************************************************)
EmbeddingModels == {"small", "large"}
Texts == {"t1", "t2"}
TopKs == {1, 2, 4}

\* OpenAIEmbeddings: the model fixes the length of every embedding it makes
Embed(model, text) ==
    IF model = "small"
    THEN (IF text = "t1" THEN <<1>> ELSE <<2>>)
    ELSE (IF text = "t1" THEN <<1, 0>> ELSE <<1, 1>>)
Dimensions(model) == Len(Embed(model, "t1"))

\* the readings of the clock, in milliseconds, at the calls followed
Instants == {0, 5}

\* Date.prototype.toISOString of an instant of the first second
toISOString(ms) ==
    "1970-01-01T00:00:00."
      \o (IF ms < 10 THEN "00" ELSE IF ms < 100 THEN "0" ELSE "") \o ToString(ms)
      \o "Z"

\* ingestDocument(): the Documents made of the chunks of a file, every one
\* with the six metadata members of the object literal
ChunkDocuments(chunks, blobId, filename, uploadedAt) ==
    [i \in DOMAIN chunks |->
        [pageContent |-> chunks[i],
         metadata |-> [blobId |-> blobId,
                       filename |-> filename,
                       fileType |-> "text/plain",
                       chunkIndex |-> i - 1,
                       totalChunks |-> Len(chunks),
                       uploadedAt |-> uploadedAt]]]

\* the blob id the Blob Store gives the content of a file
BlobIdOf(filename) == IF filename = "a.txt" THEN "d1" ELSE "d2"

\* the Documents that can be added, and the batches of them: the document of
\* a file of one chunk
Doc(text, filename) ==
    ChunkDocuments(<<text>>, BlobIdOf(filename), filename, toISOString(0))[1]
Documents == {Doc(text, filename) : text \in Texts, filename \in FileNames}
DocumentBatches == UNION {[1..n -> Documents] : n \in 1..2}

\* the documents each of the two overlapping addDocuments() calls adds (the
\* two chunks of a.txt, the one chunk of b.txt), and the document of the
\* entry that an earlier process left in the file
Batch(p) ==
    IF p = "addA"
    THEN ChunkDocuments(<<"t1", "t2">>, BlobIdOf("a.txt"), "a.txt", toISOString(0))
    ELSE ChunkDocuments(<<"t1">>, BlobIdOf("b.txt"), "b.txt", toISOString(0))
EarlierDocument == Doc("t2", "b.txt")

\* MemoryVectorStore.addVectors: one memory vector per document
MemoryVector(model, doc) ==
    [content |-> doc.pageContent, embedding |-> Embed(model, doc.pageContent),
     metadata |-> doc.metadata]
MemoryVectors(model, docs) == [i \in DOMAIN docs |-> MemoryVector(model, docs[i])]

\* ---- JSON.  A JSON text is modelled by the tree of values it denotes.
Undefined == [t |-> "undefined"]
JsonNull == [t |-> "null"]
JsonString(s) == [t |-> "string", v |-> s]
JsonNumber(n) == [t |-> "number", v |-> n]
JsonArray(items) == [t |-> "array", v |-> items]
\* JSON.stringify leaves out the members whose value is undefined
JsonObject(members) ==
    [t |-> "object", v |-> SelectSeq(members, LAMBDA m : m[2].t # "undefined")]
HasMember(obj, key) ==
    obj.t = "object" /\ \E i \in DOMAIN obj.v : obj.v[i][1] = key
\* obj.key of JavaScript: a TypeError on null and undefined, undefined where
\* there is no such member
TypeError == [t |-> "TypeError"]
Member(obj, key) ==
    IF obj.t \in {"null", "undefined"}
    THEN TypeError
    ELSE IF HasMember(obj, key)
         THEN obj.v[CHOOSE i \in DOMAIN obj.v : obj.v[i][1] = key][2]
         ELSE Undefined
\* !x of JavaScript
Falsy(j) ==
    \/ j.t \in {"undefined", "null"}
    \/ j.t = "string" /\ j.v = ""
    \/ j.t = "number" /\ j.v = 0

\* JSON.stringify of a memory vector / serialized vector, and JSON.parse of it
StringifyVector(vec) ==
    JsonObject(<<
        <<"content", JsonString(vec.content)>>,
        <<"embedding", JsonArray([i \in DOMAIN vec.embedding |->
                                     JsonNumber(vec.embedding[i])])>>,
        <<"metadata", JsonObject(<<
            <<"blobId", JsonString(vec.metadata.blobId)>>,
            <<"filename", JsonString(vec.metadata.filename)>>,
            <<"fileType", JsonString(vec.metadata.fileType)>>,
            <<"chunkIndex", JsonNumber(vec.metadata.chunkIndex)>>,
            <<"totalChunks", JsonNumber(vec.metadata.totalChunks)>>,
            <<"uploadedAt", JsonString(vec.metadata.uploadedAt)>> >>)>> >>)
ParseVector(j) ==
    [content |-> Member(j, "content").v,
     embedding |-> [i \in DOMAIN Member(j, "embedding").v |->
                       Member(j, "embedding").v[i].v],
     metadata |-> [blobId |-> Member(Member(j, "metadata"), "blobId").v,
                   filename |-> Member(Member(j, "metadata"), "filename").v,
                   fileType |-> Member(Member(j, "metadata"), "fileType").v,
                   chunkIndex |-> Member(Member(j, "metadata"), "chunkIndex").v,
                   totalChunks |-> Member(Member(j, "metadata"), "totalChunks").v,
                   uploadedAt |-> Member(Member(j, "metadata"), "uploadedAt").v]]
StringifyVectors(vecs) == JsonArray([i \in DOMAIN vecs |-> StringifyVector(vecs[i])])
ParseVectors(j) == [i \in DOMAIN j.v |-> ParseVector(j.v[i])]

\* save(): JSON.stringify({ memoryVectors: this.store.memoryVectors })
SaveText(mv) == JsonObject(<< <<"memoryVectors", StringifyVectors(mv)>> >>)
\* loadFromDisk(): data.memoryVectors || [] of the parsed content; a
\* TypeError where the content is `null`
NoVectors(text) == << >>
LoadText(text) ==
    IF Member(text, "memoryVectors") = TypeError
    THEN TypeError
    ELSE IF Falsy(Member(text, "memoryVectors"))
         THEN << >>
         ELSE ParseVectors(Member(text, "memoryVectors"))

\* the number of decimal digits of a natural number
RECURSIVE Digits(_)
Digits(n) == IF n < 10 THEN 1 ELSE 1 + Digits(n \div 10)

\* the number of characters of JSON.stringify(value, null, 2) where the
\* value stands at nesting depth `depth`: an item or member per line,
\* indented by two spaces per level
RECURSIVE JsonLength(_, _)
JsonLength(j, depth) ==
    LET Items[i \in 0..Len(j.v)] ==
            IF i = 0
            THEN 0
            ELSE Items[i - 1] + 2 * (depth + 1)
                   + (IF j.t = "object"
                      THEN Len(j.v[i][1]) + 4 + JsonLength(j.v[i][2], depth + 1)
                      ELSE JsonLength(j.v[i], depth + 1))
    IN  CASE j.t = "string" -> Len(j.v) + 2
          [] j.t = "number" -> Digits(j.v)
          [] j.t = "null" -> 4
          [] j.t \in {"array", "object"} ->
                IF j.v = << >>
                THEN 2
                ELSE Items[Len(j.v)] + 2 * Len(j.v) + 2 * depth + 2

\* ---- the store directory and memory-store.json in it.  The directory is
\* missing, or holds no file, or holds the file.  A file is the JSON text
\* last written from its first character on (the empty text after an open
\* truncated it) and its length: characters beyond the text are what is
\* left of a longer text written before
NoDirectory == [t |-> "nodir"]
NoFile == [t |-> "absent"]
EmptyText == [t |-> "empty"]
\* characters that are no JSON document: JSON.parse throws on them
Garbage == [t |-> "garbage"]
File(text, len) == [t |-> "file", text |-> text, len |-> len]
TextLength(text) == IF text = EmptyText THEN 0 ELSE JsonLength(text, 0)
FileOf(text) == File(text, TextLength(text))
CompleteFile(entries) == FileOf(SaveText(entries))
FileExists(file) == file.t = "file"
Parses(text) == text.t \notin {"empty", "garbage"}

\* the first n characters of a file, or all it has when it has fewer: they
\* are a JSON document exactly when they are the text written last
FirstCharacters(file, n) ==
    LET got == IF n < file.len THEN n ELSE file.len
    IN  IF file.text # EmptyText /\ got = TextLength(file.text)
        THEN file.text
        ELSE Garbage
\* all the characters of a file
FileText(file) ==
    IF FileExists(file) THEN FirstCharacters(file, file.len) ELSE Garbage

\* open(path, 'w'): the file is created, or truncated to no characters
Truncated == File(EmptyText, 0)
\* the file once `text` is written from its first character on: characters
\* that the file holds beyond the length of the text stay
Overwritten(file, text) ==
    File(text, IF file.len > TextLength(text) THEN file.len ELSE TextLength(text))

\* the file a descriptor refers to: the one of that name, or the one that
\* delete() unlinked after the descriptor was opened
DescribedFile(p) == IF fd[p] = "linked" THEN storageFile ELSE unlinked
\* an unlinked file is gone with the last descriptor of it
UnlinkedFor(fds) ==
    IF \E q \in StoreProcs : fds[q] = "unlinked" THEN unlinked ELSE NoFile

\* the object that the next `new MemoryVectorStore(this.embeddings)` creates
NewStore == Len(memoryVectors) + 1

\* what save() writes: this.store.memoryVectors, read when save() resumes
\* after mkdir
SavedVectors == memoryVectors[store]

\* the arguments and the outcome of the last similaritySearch(), once it has
\* ended
NoFilter == [kind |-> "undefined", filename |-> "none"]
NoSearch ==
    [query |-> "none", k |-> 0, filter |-> NoFilter, matching |-> 0,
     outcome |-> "none", results |-> << >>, read |-> << >>]
\* similaritySearch(query) with the default k and no filter
DefaultSearch == [query |-> "t1", k |-> 4, filter |-> NoFilter]

\* a process in which nothing was called yet: this.store is null and the
\* file is as an earlier process left it
StoreStart ==
    /\ store = 0
    /\ memoryVectors = << >>
    /\ unlinked = NoFile
    /\ pc = [p \in StoreProcs |-> "idle"]
    /\ ref = [p \in StoreProcs |-> 0]
    /\ data = [p \in StoreProcs |-> << >>]
    /\ fd = [p \in StoreProcs |-> "none"]
    /\ searched = NoSearch
    /\ committed = {}

\* the process runs with the embedding model that wrote the file; the file
\* may also hold a JSON text that is no store (`null`).  The directory
\* without the file is what the unlink of delete() leaves
StoreInit ==
    /\ StoreStart
    /\ storageFile \in {NoDirectory,
                        CompleteFile(<<MemoryVector("small", EarlierDocument)>>),
                        FileOf(JsonNull)}

\* the store as the other specifications leave it: never constructed
StoreUnused ==
    /\ StoreStart
    /\ storageFile = NoFile

\* an operation that is not running: not begun, returned, or thrown (the
\* embedding or JSON.parse failed, ENOENT, 'Vector store not initialized',
\* a TypeError)
Settled(p) ==
    pc[p] \in {"idle", "done", "failed", "enoent", "notInitialized", "typeError"}

\* initialize(): await this.storeExists(), which awaits fs.access
InitializeCall ==
    /\ Settled("init")
    /\ Len(memoryVectors) < MaxStores
    /\ pc' = [pc EXCEPT !["init"] = "access"]
    /\ UNCHANGED <<store, memoryVectors, storageFile, unlinked, ref, data, fd,
                   searched, committed>>

\* fs.access finds the file, and loadFromDisk() calls fs.readFile, or it
\* finds none: storeExists() will return false
StoreExists ==
    /\ pc["init"] = "access"
    /\ pc' = [pc EXCEPT !["init"] = IF FileExists(storageFile) THEN "open"
                                                               ELSE "create"]
    /\ UNCHANGED <<store, memoryVectors, storageFile, unlinked, ref, data, fd,
                   searched, committed>>

\* storeExists() returned false: an empty store is created and fs.mkdir of
\* the parent of the store directory is awaited
CreateStore ==
    /\ pc["init"] = "create"
    /\ store' = NewStore
    /\ memoryVectors' = Append(memoryVectors, << >>)
    /\ committed' = committed \cup {<< >>}
    /\ pc' = [pc EXCEPT !["init"] = "mkdirInit"]
    /\ UNCHANGED <<storageFile, unlinked, ref, data, fd, searched>>

\* save() is entered: it throws 'Vector store not initialized' when
\* this.store is null, else awaits fs.mkdir of the parent of the store
\* directory
SaveEntered == IF store = 0 THEN "notInitialized" ELSE "mkdir"

\* initialize(): fs.mkdir returned, save() is called
InitializeSave ==
    /\ pc["init"] = "mkdirInit"
    /\ pc' = [pc EXCEPT !["init"] = SaveEntered]
    /\ UNCHANGED <<store, memoryVectors, storageFile, unlinked, ref, data, fd,
                   searched, committed>>

\* fs.readFile opens the file, or finds none (ENOENT) and initialize()
\* throws
ReadFileOpen ==
    /\ pc["init"] = "open"
    /\ IF FileExists(storageFile)
       THEN /\ fd' = [fd EXCEPT !["init"] = "linked"]
            /\ pc' = [pc EXCEPT !["init"] = "fstat"]
       ELSE /\ pc' = [pc EXCEPT !["init"] = "enoent"]
            /\ UNCHANGED fd
    /\ UNCHANGED <<store, memoryVectors, storageFile, unlinked, ref, data,
                   searched, committed>>

\* fs.readFile takes the size of the file it opened
ReadFileStat ==
    /\ pc["init"] = "fstat"
    /\ data' = [data EXCEPT !["init"] = [size |-> DescribedFile("init").len]]
    /\ pc' = [pc EXCEPT !["init"] = "read"]
    /\ UNCHANGED <<store, memoryVectors, storageFile, unlinked, ref, fd,
                   searched, committed>>

\* fs.readFile reads through its descriptor.  Of a file that had a size it
\* reads that many characters at most, once.  Of a file that had none it
\* reads what there is and, where there was something, goes on reading
\* until nothing is left
ReadFileRead ==
    /\ pc["init"] = "read"
    /\ LET file == DescribedFile("init")
           size == data["init"].size
       IN  IF size > 0 \/ file.len = 0
           THEN /\ data' = [data EXCEPT !["init"] = FirstCharacters(file, size)]
                /\ pc' = [pc EXCEPT !["init"] = "parse"]
           ELSE /\ data' = [data EXCEPT !["init"] =
                               [text |-> FileText(file), position |-> file.len]]
                /\ pc' = [pc EXCEPT !["init"] = "readMore"]
    /\ UNCHANGED <<store, memoryVectors, storageFile, unlinked, ref, fd,
                   searched, committed>>

\* fs.readFile reads on from where it got to: characters written since are
\* added to what it has, and it reads again; nothing more ends the reading
ReadFileMore ==
    /\ pc["init"] = "readMore"
    /\ LET file == DescribedFile("init")
       IN  IF file.len > data["init"].position
           THEN /\ data' = [data EXCEPT !["init"] =
                               [text |-> Garbage, position |-> file.len]]
                /\ UNCHANGED pc
           ELSE /\ data' = [data EXCEPT !["init"] = data["init"].text]
                /\ pc' = [pc EXCEPT !["init"] = "parse"]
    /\ UNCHANGED <<store, memoryVectors, storageFile, unlinked, ref, fd,
                   searched, committed>>

\* fs.readFile closes the file and returns; loadFromDisk: JSON.parse, then
\* a new store replaces this.store and gets the memoryVectors of the
\* content.  Characters that are no JSON document make JSON.parse throw and
\* initialize() with it; on the content `null` it throws after the new,
\* empty store has replaced this.store
LoadFromDisk ==
    /\ pc["init"] = "parse"
    /\ fd' = [fd EXCEPT !["init"] = "none"]
    /\ unlinked' = UnlinkedFor(fd')
    /\ IF ~Parses(data["init"])
       THEN /\ pc' = [pc EXCEPT !["init"] = "failed"]
            /\ UNCHANGED <<store, memoryVectors, committed>>
       ELSE /\ store' = NewStore
            /\ IF Member(data["init"], "memoryVectors") = TypeError
               THEN /\ memoryVectors' = Append(memoryVectors, << >>)
                    /\ committed' = committed \cup {<< >>}
                    /\ pc' = [pc EXCEPT !["init"] = "typeError"]
               ELSE /\ memoryVectors' = Append(memoryVectors, LoadText(data["init"]))
                    /\ committed' = committed \cup {LoadText(data["init"])}
                    /\ pc' = [pc EXCEPT !["init"] = "done"]
    /\ data' = [data EXCEPT !["init"] = << >>]
    /\ UNCHANGED <<storageFile, ref, searched>>

\* addDocuments(documents): this.store.addDocuments(documents) is called on
\* the current store and awaits the embeddings
AddDocumentsCall(p, docs) ==
    /\ pc[p] = "idle"
    /\ store # 0
    /\ ref' = [ref EXCEPT ![p] = store]
    /\ data' = [data EXCEPT ![p] = docs]
    /\ pc' = [pc EXCEPT ![p] = "embed"]
    /\ UNCHANGED <<store, memoryVectors, storageFile, unlinked, fd, searched,
                   committed>>

\* MemoryVectorStore.addVectors appends the batch to the store it was
\* called on; save() is called
AddVectors(p) ==
    /\ pc[p] = "embed"
    /\ memoryVectors' = [memoryVectors EXCEPT
                           ![ref[p]] = @ \o MemoryVectors(embeddingModel, data[p])]
    /\ committed' = committed
                      \cup {memoryVectors[ref[p]] \o MemoryVectors(embeddingModel, data[p])}
    /\ pc' = [pc EXCEPT ![p] = SaveEntered]
    /\ ref' = [ref EXCEPT ![p] = 0]
    /\ data' = [data EXCEPT ![p] = << >>]
    /\ UNCHANGED <<store, storageFile, unlinked, fd, searched>>

\* the embedding provider fails: addDocuments() throws, nothing was added
EmbedFails(p) ==
    /\ pc[p] = "embed"
    /\ pc' = [pc EXCEPT ![p] = "failed"]
    /\ ref' = [ref EXCEPT ![p] = 0]
    /\ data' = [data EXCEPT ![p] = << >>]
    /\ UNCHANGED <<store, memoryVectors, storageFile, unlinked, fd, searched,
                   committed>>

\* save(): mkdir returned; this.store.memoryVectors is serialized (a
\* TypeError when this.store is null by now) and fs.writeFile is called
SaveSerialize(p) ==
    /\ pc[p] = "mkdir"
    /\ IF store = 0
       THEN /\ pc' = [pc EXCEPT ![p] = "typeError"]
            /\ UNCHANGED data
       ELSE /\ data' = [data EXCEPT ![p] = SaveText(SavedVectors)]
            /\ pc' = [pc EXCEPT ![p] = "writeFile"]
    /\ UNCHANGED <<store, memoryVectors, storageFile, unlinked, ref, fd,
                   searched, committed>>

\* fs.writeFile opens the file, which creates or truncates it; where the
\* store directory is missing it fails with ENOENT and the operation throws
WriteFileOpen(p) ==
    /\ pc[p] = "writeFile"
    /\ IF storageFile = NoDirectory
       THEN /\ pc' = [pc EXCEPT ![p] = "enoent"]
            /\ data' = [data EXCEPT ![p] = << >>]
            /\ UNCHANGED <<storageFile, fd>>
       ELSE /\ storageFile' = Truncated
            /\ fd' = [fd EXCEPT ![p] = "linked"]
            /\ pc' = [pc EXCEPT ![p] = "write"]
            /\ UNCHANGED data
    /\ UNCHANGED <<store, memoryVectors, unlinked, ref, searched, committed>>

\* fs.writeFile writes the serialized store through its descriptor, from
\* the first character of the file on.  A write to a file that was unlinked
\* since it was opened changes nothing in the directory
WriteFileWrite(p) ==
    /\ pc[p] = "write"
    /\ IF fd[p] = "linked"
       THEN /\ storageFile' = Overwritten(storageFile, data[p])
            /\ UNCHANGED unlinked
       ELSE /\ unlinked' = Overwritten(unlinked, data[p])
            /\ UNCHANGED storageFile
    /\ data' = [data EXCEPT ![p] = << >>]
    /\ pc' = [pc EXCEPT ![p] = "close"]
    /\ UNCHANGED <<store, memoryVectors, ref, fd, searched, committed>>

\* fs.writeFile closes the file and returns: save() returns, and the
\* operation that called it is done
WriteFileClose(p) ==
    /\ pc[p] = "close"
    /\ fd' = [fd EXCEPT ![p] = "none"]
    /\ unlinked' = UnlinkedFor(fd')
    /\ pc' = [pc EXCEPT ![p] = "done"]
    /\ UNCHANGED <<store, memoryVectors, storageFile, ref, data, searched,
                   committed>>

\* delete(): await fs.rm(this.storePath, { recursive: true, force: true }).
\* fs.rm is a sequence of file system calls, each awaited: rmdir of the
\* directory and, where that finds the directory not empty, readdir, then
\* lstat and unlink of the file, then rmdir again
DeleteCall ==
    /\ pc["delete"] = "idle"
    /\ pc' = [pc EXCEPT !["delete"] = "rmdir"]
    /\ UNCHANGED <<store, memoryVectors, storageFile, unlinked, ref, data, fd,
                   searched, committed>>

\* fs.rm, rmdir: an empty directory is removed and a missing one is no
\* error (force); a directory that holds the file is listed next
Rmdir ==
    /\ pc["delete"] = "rmdir"
    /\ IF FileExists(storageFile)
       THEN /\ pc' = [pc EXCEPT !["delete"] = "readdir"]
            /\ UNCHANGED storageFile
       ELSE /\ storageFile' = NoDirectory
            /\ pc' = [pc EXCEPT !["delete"] = "removed"]
    /\ UNCHANGED <<store, memoryVectors, unlinked, ref, data, fd, searched,
                   committed>>

\* fs.rm, readdir: the file is listed, or the directory is empty
Readdir ==
    /\ pc["delete"] = "readdir"
    /\ pc' = [pc EXCEPT !["delete"] = IF FileExists(storageFile) THEN "lstat"
                                                                 ELSE "rmdirAgain"]
    /\ UNCHANGED <<store, memoryVectors, storageFile, unlinked, ref, data, fd,
                   searched, committed>>

\* fs.rm, lstat of the file listed
Lstat ==
    /\ pc["delete"] = "lstat"
    /\ pc' = [pc EXCEPT !["delete"] = IF FileExists(storageFile) THEN "unlink"
                                                                 ELSE "rmdirAgain"]
    /\ UNCHANGED <<store, memoryVectors, storageFile, unlinked, ref, data, fd,
                   searched, committed>>

\* fs.rm, unlink: the name is removed from the directory, which stays; the
\* descriptors that are open on the file keep it, without a name
Unlink ==
    /\ pc["delete"] = "unlink"
    /\ storageFile' = NoFile
    /\ fd' = [p \in StoreProcs |-> IF fd[p] = "linked" THEN "unlinked" ELSE fd[p]]
    /\ unlinked' = IF \E p \in StoreProcs : fd[p] = "linked" THEN storageFile
                                                             ELSE NoFile
    /\ pc' = [pc EXCEPT !["delete"] = "rmdirAgain"]
    /\ UNCHANGED <<store, memoryVectors, ref, data, searched, committed>>

\* fs.rm, rmdir of the emptied directory.  Where a save() has created the
\* file again since the unlink, rmdir fails (ENOTEMPTY) and fs.rm rejects:
\* delete() logs the error and returns, this.store is kept
RmdirAgain ==
    /\ pc["delete"] = "rmdirAgain"
    /\ IF FileExists(storageFile)
       THEN /\ pc' = [pc EXCEPT !["delete"] = "done"]
            /\ UNCHANGED storageFile
       ELSE /\ storageFile' = NoDirectory
            /\ pc' = [pc EXCEPT !["delete"] = "removed"]
    /\ UNCHANGED <<store, memoryVectors, unlinked, ref, data, fd, searched,
                   committed>>

\* fs.rm returned: this.store = null
DeleteDone ==
    /\ pc["delete"] = "removed"
    /\ store' = 0
    /\ pc' = [pc EXCEPT !["delete"] = "done"]
    /\ UNCHANGED <<memoryVectors, storageFile, unlinked, ref, data, fd, searched,
                   committed>>

\* a call of fs.rm failed for another reason (EPERM, EBUSY, ...): delete()
\* logs the error and returns, this.store is kept
DeleteFails ==
    /\ pc["delete"] \in {"rmdir", "readdir", "lstat", "unlink", "rmdirAgain"}
    /\ pc' = [pc EXCEPT !["delete"] = "done"]
    /\ UNCHANGED <<store, memoryVectors, storageFile, unlinked, ref, data, fd,
                   searched, committed>>

\* ---- MemoryVectorStore.similaritySearchWithScore
\* the filter argument: absent, a predicate on documents (here: on the
\* filename), or a plain metadata object as the Record type of the
\* parameter of similaritySearch() describes
Filters == {NoFilter} \cup [kind : {"predicate", "object"}, filename : {"a.txt"}]
Searches == [query : Texts, k : TopKs, filter : Filters]

\* the entries whose metadata satisfies the filter
Matching(filter, mv) ==
    SelectSeq(mv, LAMBDA vec :
        filter.kind = "undefined" \/ vec.metadata.filename = filter.filename)

\* filterFunction calls filter(doc) on every memory vector: a filter that
\* is not a function throws a TypeError on the first one
FilterIsCallable(filter, mv) == filter.kind # "object" \/ mv = << >>

\* cosine similarity, summed over the positions of the query embedding: an
\* entry shorter than the query gives NaN.  The value p / sqrt(d) is kept as
\* the pair (p, d); p is never negative here.
RECURSIVE SumOver(_, _)
SumOver(f, n) == IF n = 0 THEN 0 ELSE f[n] + SumOver(f, n - 1)
NaN == [nan |-> TRUE, p |-> 0, d |-> 1]
Similarity(q, e) ==
    IF Len(e) < Len(q)
    THEN NaN
    ELSE [nan |-> FALSE,
          p |-> SumOver([i \in 1..Len(q) |-> q[i] * e[i]], Len(q)),
          d |-> SumOver([i \in 1..Len(q) |-> q[i] * q[i]], Len(q))
                  * SumOver([i \in 1..Len(q) |-> e[i] * e[i]], Len(q))]
Greater(a, b) == ~a.nan /\ ~b.nan /\ a.p * a.p * b.d > b.p * b.p * a.d

\* .sort((a, b) => a.similarity > b.similarity ? -1 : 0): descending and
\* stable; where a NaN is compared the order is left to the engine
SortedOrders(sims) ==
    {o \in [1..Len(sims) -> 1..Len(sims)] :
        /\ \A a, b \in 1..Len(sims) : a # b => o[a] # o[b]
        /\ \A a, b \in 1..Len(sims) :
             a < b => \/ sims[o[a]].nan \/ sims[o[b]].nan
                      \/ Greater(sims[o[a]], sims[o[b]])
                      \/ ~Greater(sims[o[b]], sims[o[a]]) /\ o[a] < o[b]}

\* .slice(0, k)
Slice(n, k) == IF k < n THEN k ELSE n

\* similaritySearch(query, k, filter): this.store.similaritySearchWithScore
\* is called on the current store and awaits the embedding of the query
SimilaritySearchCall(args) ==
    /\ pc["search"] \in {"idle", "done"}
    /\ store # 0
    /\ ref' = [ref EXCEPT !["search"] = store]
    /\ data' = [data EXCEPT !["search"] = args]
    /\ pc' = [pc EXCEPT !["search"] = "embedQuery"]
    /\ searched' = NoSearch
    /\ UNCHANGED <<store, memoryVectors, storageFile, unlinked, fd, committed>>

\* the query is embedded: the search reads memoryVectors of its store; the
\* entries are filtered, scored, sorted and cut to k
SimilaritySearchDone ==
    /\ pc["search"] = "embedQuery"
    /\ LET args == data["search"]
           mv == memoryVectors[ref["search"]]
           matching == Matching(args.filter, mv)
           sims == [i \in DOMAIN matching |->
                      Similarity(Embed(embeddingModel, args.query), matching[i].embedding)]
       IN  IF FilterIsCallable(args.filter, mv)
           THEN \E o \in SortedOrders(sims) :
                  searched' =
                    [query |-> args.query, k |-> args.k, filter |-> args.filter,
                     matching |-> Len(matching), outcome |-> "returned",
                     results |->
                       [i \in 1..Slice(Len(matching), args.k) |->
                          [document |-> [pageContent |-> matching[o[i]].content,
                                         metadata |-> matching[o[i]].metadata],
                           score |-> sims[o[i]]]],
                     read |-> mv]
           ELSE searched' =
                  [query |-> args.query, k |-> args.k, filter |-> args.filter,
                   matching |-> Len(matching), outcome |-> "threw",
                   results |-> << >>, read |-> mv]
    /\ pc' = [pc EXCEPT !["search"] = "done"]
    /\ ref' = [ref EXCEPT !["search"] = 0]
    /\ data' = [data EXCEPT !["search"] = << >>]
    /\ UNCHANGED <<store, memoryVectors, storageFile, unlinked, fd, committed>>

\* the steps of initialize()
InitializeStep ==
    \/ InitializeCall
    \/ StoreExists
    \/ CreateStore
    \/ InitializeSave
    \/ ReadFileOpen
    \/ ReadFileStat
    \/ ReadFileRead
    \/ ReadFileMore
    \/ LoadFromDisk

\* the steps of save() inside initialize() and addDocuments()
SaveStep(p) ==
    \/ SaveSerialize(p)
    \/ WriteFileOpen(p)
    \/ WriteFileWrite(p)
    \/ WriteFileClose(p)

\* the steps of delete()
DeleteStep ==
    \/ DeleteCall
    \/ Rmdir
    \/ Readdir
    \/ Lstat
    \/ Unlink
    \/ RmdirAgain
    \/ DeleteDone
    \/ DeleteFails

StoreStep ==
    \/ InitializeStep
    \/ \E p \in Adders : AddDocumentsCall(p, Batch(p)) \/ AddVectors(p) \/ EmbedFails(p)
    \/ \E p \in Adders \cup {"init"} : SaveStep(p)
    \/ DeleteStep
    \/ SimilaritySearchCall(DefaultSearch)
    \/ SimilaritySearchDone

(***************************************************************************)
(* vector-serialization.ts, applied to the entries of the store            *)
(***************************************************************************)
\* the versions a VectorIndexSnapshot is taken at
SnapshotVersions == {0, 2}

\* serializeVectors(vectors, metadata) called when the clock reads `now`
serializeVectors(vecs, metadata, now) ==
    JsonObject(<<
        <<"version", JsonString("1.0")>>,
        <<"embeddingModel", JsonString(metadata.embeddingModel)>>,
        <<"dimensions", JsonNumber(metadata.dimensions)>>,
        <<"vectors", StringifyVectors(vecs)>>,
        <<"createdAt", JsonString(toISOString(now))>> >>)
InvalidFormat == [error |-> "Invalid serialized vector format"]
\* JSON.parse(data), the shape check, then the parsed value as it is; the
\* check throws a TypeError on `null`
deserializeVectors(text) ==
    IF Member(text, "version") = TypeError
    THEN [error |-> "TypeError"]
    ELSE IF \/ Falsy(Member(text, "version"))
            \/ Falsy(Member(text, "vectors"))
            \/ Member(text, "vectors").t # "array"
         THEN InvalidFormat
         ELSE [version |-> Member(text, "version"),
               embeddingModel |-> Member(text, "embeddingModel").v,
               dimensions |-> Member(text, "dimensions").v,
               vectors |-> ParseVectors(Member(text, "vectors")),
               createdAt |-> Member(text, "createdAt").v]

\* blob contents that serializeVectors() did not make
ForeignTexts == {JsonNull, JsonObject(<< >>), JsonArray(<< >>), JsonNumber(0)}

NoRoundTrip ==
    [stage |-> "none", input |-> << >>, text |-> Undefined, output |-> << >>]

IndexUnused ==
    /\ embeddingModel = "small"
    /\ roundTrip = NoRoundTrip

\* the constructor reads the embedding model from the configuration
IndexInit ==
    /\ embeddingModel \in EmbeddingModels
    /\ roundTrip = NoRoundTrip

\* the file may have been written by a process that ran with another
\* embedding model in its configuration
IndexStoreInit ==
    /\ StoreStart
    /\ storageFile \in {NoDirectory, NoFile}
                         \cup {CompleteFile(<<MemoryVector(m, EarlierDocument)>>) :
                                 m \in EmbeddingModels}

\* the snapshot of the index at a version: its entries in order, their
\* dimension, the embedding model
VectorIndexSnapshot(v) ==
    [version |-> v, entries |-> SavedVectors,
     dimension |-> Dimensions(embeddingModel), embeddingModelId |-> embeddingModel]

\* a snapshot is serialized at any reading of the clock:
\* serializeVectors(vectors, {embeddingModel, dimensions}), which has no
\* parameter for the version of the snapshot
SerializeVectors ==
    /\ store # 0
    /\ \E now \in Instants, v \in SnapshotVersions :
         LET S == VectorIndexSnapshot(v)
             metadata == [embeddingModel |-> S.embeddingModelId,
                          dimensions |-> S.dimension]
         IN  roundTrip' = [stage |-> "serialized",
                           input |-> S,
                           text |-> serializeVectors(S.entries, metadata, now),
                           output |-> << >>]
    /\ UNCHANGED embeddingModel

\* deserializeVectors(data) of the text serialized, or of another blob
DeserializeVectors(text) ==
    /\ roundTrip.stage = "serialized"
    /\ roundTrip' = [roundTrip EXCEPT !.stage = "deserialized",
                                      !.text = text,
                                      !.output = deserializeVectors(text)]
    /\ UNCHANGED embeddingModel

\* initialize() and one addDocuments() of a batch out of `batches`
IndexStoreStep(batches) ==
    \/ InitializeStep
    \/ \E docs \in batches : AddDocumentsCall("addA", docs)
    \/ AddVectors("addA")
    \/ EmbedFails("addA")
    \/ \E p \in {"addA", "init"} : SaveStep(p)

\* the batches added next to the searches: one or two documents of a file
SearchedBatches == {SubSeq(Batch("addA"), 1, n) : n \in 1..Len(Batch("addA"))}

\* similaritySearch() with any arguments
SearchStep ==
    \/ \E args \in Searches : SimilaritySearchCall(args)
    \/ SimilaritySearchDone

IndexStep ==
    \/ SerializeVectors
    \/ \E text \in {roundTrip.text} \cup ForeignTexts : DeserializeVectors(text)

(***************************************************************************)
(* RAGService.ingestDocument (rag-service).  Its addDocuments() call is the *)
(* operation "addA" of the VectorStoreService.                             *)
(***************************************************************************)
\* the document ingested, the chunks chunkDocument() makes of its content
\* and the blob id the Blob Store gives the content
IngestFilename == "a.txt"
IngestChunks == <<"t1", "t2">>
IngestBlobId == BlobIdOf(IngestFilename)
\* no blob: uploadBlob has not returned one
NoUpload == [blobId |-> "none", uploadedAt |-> 0]
NoStoredDoc ==
    [id |-> "none", blobId |-> "none", filename |-> "none", uploadedAt |-> 0]

\* await walrusClient.uploadBlob(content) inside the try block: a rejection
\* leaves the block for the catch clause
UploadIgnored(outcome) == FALSE
UploadAborts(outcome) == outcome = "failed"

IngestInit ==
    /\ ingestPc = "idle"
    /\ uploadOutcome = "none"
    /\ blob = NoUpload
    /\ storedDoc = NoStoredDoc

\* ingestDocument(): await walrusClient.uploadBlob(content)
IngestCall ==
    /\ ingestPc = "idle"
    /\ ingestPc' = "upload"
    /\ UNCHANGED <<uploadOutcome, blob, storedDoc, storeVars>>

\* the documents of the chunks, tagged with the blob uploadBlob returned
IngestDocuments(uploaded) ==
    ChunkDocuments(IngestChunks, uploaded.blobId, IngestFilename,
                   toISOString(uploaded.uploadedAt))

\* uploadBlob ends.  Failed: ingestDocument() rethrows.  Returned, with the
\* blob id and the time of the upload: the content is chunked, the chunks
\* become documents and vectorStoreService.addDocuments(documents) is
\* called, which throws at once when the store is not initialized
UploadCompletes(outcome, now) ==
    /\ ingestPc = "upload"
    /\ uploadOutcome' = outcome
    /\ IF UploadAborts(outcome)
       THEN /\ ingestPc' = "threw"
            /\ UNCHANGED <<blob, storeVars>>
       ELSE /\ blob' = IF outcome = "ok"
                       THEN [blobId |-> IngestBlobId, uploadedAt |-> now]
                       ELSE blob
            /\ IF store = 0
               THEN /\ ingestPc' = "threw"
                    /\ UNCHANGED storeVars
               ELSE /\ ingestPc' = "add"
                    /\ AddDocumentsCall("addA", IngestDocuments(blob'))
    /\ UNCHANGED storedDoc

\* addDocuments() returns in this step (fs.writeFile has closed the file it
\* wrote in an earlier step): ingestDocument() returns the StoredDocument in
\* the same run
IngestReturns ==
    /\ ingestPc = "add"
    /\ pc'["addA"] = "done"
    /\ storedDoc' = [id |-> blob.blobId, blobId |-> blob.blobId,
                     filename |-> IngestFilename, uploadedAt |-> blob.uploadedAt]
    /\ ingestPc' = "returned"
    /\ UNCHANGED <<uploadOutcome, blob>>

\* addDocuments() throws in this step (the embedding or save() failed):
\* ingestDocument() rethrows in the same run
IngestAddFails ==
    /\ ingestPc = "add"
    /\ pc'["addA"] \in {"failed", "enoent", "notInitialized", "typeError"}
    /\ ingestPc' = "threw"
    /\ UNCHANGED <<uploadOutcome, blob, storedDoc>>

\* addDocuments() is still awaited after this step
IngestAwaits ==
    /\ pc'["addA"] \notin {"done", "failed", "enoent", "notInitialized", "typeError"}
    /\ UNCHANGED ingestVars

\* a step of the addDocuments() call that ingestDocument() awaits
IngestAddStep ==
    /\ ingestPc = "add"
    /\ AddVectors("addA") \/ EmbedFails("addA") \/ SaveStep("addA")
    /\ IngestReturns \/ IngestAddFails \/ IngestAwaits

IngestStep ==
    \/ IngestCall
    \/ \E now \in Instants : UploadCompletes("ok", now)
    \/ UploadCompletes("failed", 0)
    \/ IngestAddStep

(***************************************************************************)
(* RAGService.chunkDocument (rag-service).  A string is the sequence of    *)
(* its characters.                                                         *)
(***************************************************************************)
Chars == {"a", "b", " "}
IsWhitespace(ch) == ch = " "

\* String.prototype.trim: from the first to the last character that is not
\* whitespace
TrimStart(s) ==
    LET kept == {i \in 1..Len(s) : ~IsWhitespace(s[i])}
    IN  IF kept = {} THEN << >>
        ELSE SubSeq(s, CHOOSE i \in kept : \A k \in kept : i <= k, Len(s))
TrimEnd(s) ==
    LET kept == {i \in 1..Len(s) : ~IsWhitespace(s[i])}
    IN  IF kept = {} THEN << >>
        ELSE SubSeq(s, 1, CHOOSE i \in kept : \A k \in kept : i >= k)
Untrimmed(s) == s
trim(s) == TrimEnd(TrimStart(s))

\* content.slice(start, end) for 0 <= start <= end: positions start .. end-1
\* counted from 0, as far as the string goes
slice(s, start, end) ==
    SubSeq(s, start + 1, IF end < Len(s) THEN end ELSE Len(s))

\* i += (chunkSize - chunkOverlap)
AdvanceBySize(chunkSize, chunkOverlap) == chunkSize
Advance(chunkSize, chunkOverlap) == chunkSize - chunkOverlap

\* the for loop of chunkDocument from position i on, with the chunks pushed
\* so far
RECURSIVE ChunkLoop(_, _, _, _, _)
ChunkLoop(content, chunkSize, chunkOverlap, i, pushed) ==
    IF ~(i < Len(content))
    THEN pushed
    ELSE LET chunk == slice(content, i, i + chunkSize)
         IN  ChunkLoop(content, chunkSize, chunkOverlap,
                       i + Advance(chunkSize, chunkOverlap),
                       IF Len(trim(chunk)) > 0
                       THEN Append(pushed, trim(chunk))
                       ELSE pushed)

chunkDocument(content, chunkSize, chunkOverlap) ==
    LET pushed == ChunkLoop(content, chunkSize, chunkOverlap, 0, << >>)
    IN  IF Len(pushed) > 0 THEN pushed ELSE <<content>>

\* the inputs: every short text with every small size and overlap, and
\* documents of 2500 characters with the configured size and overlap
ShortTexts == UNION {[1..n -> Chars] : n \in 0..MaxTextLen}
SmallSizes == {sz \in [chunkSize : 1..3, chunkOverlap : 0..2] : sz.chunkOverlap < sz.chunkSize}
LongDocuments ==
    {[i \in 1..2500 |-> "a"],
     [i \in 1..2500 |-> IF i % 7 = 0 THEN " " ELSE "b"],
     [i \in 1..2500 |-> IF i <= 2400 THEN "a" ELSE " "],
     [i \in 1..2500 |-> IF i <= 1000 THEN " " ELSE "a"]}
ChunkInputs ==
    {[content |-> c, chunkSize |-> sz.chunkSize, chunkOverlap |-> sz.chunkOverlap] :
        c \in ShortTexts, sz \in SmallSizes}
    \cup [content : LongDocuments, chunkSize : {ConfigChunkSize},
          chunkOverlap : {ConfigChunkOverlap}]

ChunkUnused ==
    /\ chunkIn = [content |-> << >>, chunkSize |-> 1, chunkOverlap |-> 0]
    /\ chunkOut = << >>

ChunkInit ==
    /\ chunkIn \in ChunkInputs
    /\ chunkOut = << >>

\* this.chunkDocument(content)
ChunkDocument ==
    /\ chunkOut = << >>
    /\ chunkOut' = chunkDocument(chunkIn.content, chunkIn.chunkSize, chunkIn.chunkOverlap)
    /\ UNCHANGED chunkIn

(***************************************************************************)
(* RAGService.query (rag-service)                                          *)
(***************************************************************************)
\* similarity scores, as integers in their order
Scores == 1..3
\* the blobs of the documents the hits are chunks of
HitBlobIds == {"d1", "d2"}

\* the fixed answers
NO_RELEVANT_DOCUMENTS ==
    "I could not find any relevant documents to answer your question."
COULD_NOT_RETRIEVE ==
    "I found relevant documents but could not retrieve them from storage."

\* what similaritySearch can return: up to MaxHits hits, by descending score
SearchOutcomes ==
    {h \in UNION {[1..n -> [blobId : HitBlobIds, score : Scores]] : n \in 0..MaxHits} :
        \A i \in 1..(Len(h) - 1) : h[i].score >= h[i + 1].score}

\* document.metadata.filename of a hit
FilenameOf(blobId) == IF blobId = "d1" THEN "a.txt" ELSE "b.txt"

\* walrusClient.getBlobAsString
BlobAsString(blobId) == IF blobId = "d1" THEN "text of a" ELSE "text of b"

\* what the mapper of a hit returns: the source, or null when its fetch failed
NullSource == [blobId |-> "null", filename |-> "null", content |-> "null", score |-> 0]
SourceOf(hit, fetch) ==
    IF fetch = "ok"
    THEN [blobId |-> hit.blobId, filename |-> FilenameOf(hit.blobId),
          content |-> BlobAsString(hit.blobId), score |-> hit.score]
    ELSE NullSource

\* Promise.all: the mappers' values in the order of the hits, whatever the
\* order in which the fetches completed
InCompletionOrder(hits, fetched, order) ==
    [k \in 1..Len(hits) |-> SourceOf(hits[order[k]], fetched[order[k]])]
PromiseAll(hits, fetched, order) ==
    [i \in 1..Len(hits) |-> SourceOf(hits[i], fetched[i])]

\* sources.filter(s => s !== null)
Unfiltered(sources) == sources
ValidSources(sources) == SelectSeq(sources, LAMBDA src : src # NullSource)

\* the labeled context block: one section per source, in the sources' order
ContextOf(validSources) ==
    [i \in 1..Len(validSources) |->
        [label |-> i, filename |-> validSources[i].filename,
         content |-> validSources[i].content]]

RAGResult(answer, sources) ==
    [answer |-> answer, sources |-> sources, documentsRetrieved |-> Len(sources)]

\* searchResults.length === 0
SomeHits(hits) == FALSE
NoHits(hits) == Len(hits) = 0

\* validSources.length === 0
SomeRetrieved(validSources) == FALSE
NoneRetrieved(validSources) == Len(validSources) = 0

\* catch (error) { console.error(...); throw error }: how query() ends when
\* an awaited step inside its try block rejects
ReturnedDespiteError == "returned"
Rethrown == "threw"

QueryInit ==
    /\ queryPc = "idle"
    /\ searchResults = << >>
    /\ fetches = << >>
    /\ completion = << >>
    /\ context = << >>
    /\ ragResult = RAGResult("", << >>)
    /\ queryError = "none"

\* query(): await vectorStoreService.similaritySearch(...)
QueryCall ==
    /\ queryPc = "idle"
    /\ queryPc' = "search"
    /\ UNCHANGED <<searchResults, fetches, completion, context, ragResult, queryError>>

\* the search (embedding included) fails: query() rethrows
SearchFails ==
    /\ queryPc = "search"
    /\ queryPc' = Rethrown
    /\ queryError' = "search"
    /\ UNCHANGED <<searchResults, fetches, completion, context, ragResult>>

\* the search returns: no hit ends the query, otherwise every hit's blob
\* fetch is started
SearchReturns ==
    /\ queryPc = "search"
    /\ \E hits \in SearchOutcomes :
         /\ searchResults' = hits
         /\ IF NoHits(hits)
            THEN /\ ragResult' = RAGResult(NO_RELEVANT_DOCUMENTS, << >>)
                 /\ queryPc' = "returned"
                 /\ UNCHANGED fetches
            ELSE /\ fetches' = [i \in 1..Len(hits) |-> "pending"]
                 /\ queryPc' = "fetch"
                 /\ UNCHANGED ragResult
    /\ UNCHANGED <<completion, context, queryError>>

\* one blob fetch completes: with the content, or with an error its mapper
\* catches
FetchCompletes(i, outcome) ==
    /\ queryPc = "fetch"
    /\ i \in DOMAIN fetches
    /\ fetches[i] = "pending"
    /\ fetches' = [fetches EXCEPT ![i] = outcome]
    /\ completion' = Append(completion, i)
    /\ UNCHANGED <<queryPc, searchResults, context, ragResult, queryError>>

\* Promise.all resolves: the failed retrievals are filtered out; with none
\* left the query ends, otherwise the generation step is invoked
AllFetched ==
    /\ queryPc = "fetch"
    /\ \A i \in DOMAIN fetches : fetches[i] # "pending"
    /\ LET validSources ==
             ValidSources(PromiseAll(searchResults, fetches, completion))
       IN  IF NoneRetrieved(validSources)
           THEN /\ ragResult' = RAGResult(COULD_NOT_RETRIEVE, << >>)
                /\ queryPc' = "returned"
                /\ UNCHANGED context
           ELSE /\ ragResult' = RAGResult("", validSources)
                /\ context' = ContextOf(validSources)
                /\ queryPc' = "generate"
    /\ UNCHANGED <<searchResults, fetches, completion, queryError>>

\* chain.invoke returns the answer: query() returns the RAGResult
GenerationReturns ==
    /\ queryPc = "generate"
    /\ ragResult' = RAGResult("generated answer", ragResult.sources)
    /\ queryPc' = "returned"
    /\ UNCHANGED <<searchResults, fetches, completion, context, queryError>>

\* chain.invoke fails: query() rethrows
GenerationFails ==
    /\ queryPc = "generate"
    /\ queryPc' = Rethrown
    /\ queryError' = "generation"
    /\ UNCHANGED <<searchResults, fetches, completion, context, ragResult>>

QueryStep ==
    \/ QueryCall
    \/ SearchFails
    \/ SearchReturns
    \/ \E i \in 1..MaxHits, outcome \in {"ok", "failed"} : FetchCompletes(i, outcome)
    \/ AllFetched
    \/ GenerationReturns
    \/ GenerationFails

(***************************************************************************)
(* ChatMetadataStore (services/chat-metadata-store.ts): the chat index of  *)
(* one user, kept as a blob; the blob id of the current index is cached.   *)
(* An index is modelled by its chats, a chat's metadata by its chatId,     *)
(* is_important and last_activity.                                         *)
(***************************************************************************)
ChatIds == {"x", "y", "z"}
ChatCalls == {"c1", "c2", "c3"}
IndexOps == {"addChatToIndex", "deleteChatFromIndex"}
NoBlob == 0

\* the metadata a chat is added with
ChatMetadata(chatId) ==
    [chatId |-> chatId, is_important |-> FALSE, last_activity |-> 0]
\* the updates of setChatImportance(): { is_important: isImportant }
Updates == [is_important : BOOLEAN]
NoUpdates == [is_important |-> FALSE]
\* the indexes that saveUserIndex() is called with from outside
SavedIndexes == {<< >>, <<ChatMetadata("x")>>}

IdleChatCall ==
    [pc |-> "idle", op |-> "none", chatId |-> "none", updates |-> NoUpdates,
     chats |-> << >>, from |-> NoBlob, fetch |-> "none", saved |-> NoBlob]

ChatIndexUnused ==
    /\ indexBlobs = << >>
    /\ serverCache = NoBlob
    /\ chatCalls = [c \in ChatCalls |-> IdleChatCall]

ChatIndexInit == ChatIndexUnused

\* index.chats.findIndex(c => c.chatId === chatId): the first position of
\* the chat, 0 where findIndex gives -1
FindIndex(loaded, chatId) ==
    IF \E i \in DOMAIN loaded : loaded[i].chatId = chatId
    THEN CHOOSE i \in DOMAIN loaded :
           /\ loaded[i].chatId = chatId
           /\ \A j \in 1..(i - 1) : loaded[j].chatId # chatId
    ELSE 0

\* index.chats after the operation.  addChatToIndex, deleteChatFromIndex:
\* the chat with this id filtered out, and, for addChatToIndex, the new
\* metadata put in front.  updateChatInIndex: the chat found keeps its place
\* and gets the updates and the time of the call as last_activity
ChatsAfter(chatCall, loaded, now) ==
    LET others == SelectSeq(loaded, LAMBDA m : m.chatId # chatCall.chatId)
    IN  CASE chatCall.op = "addChatToIndex" -> <<ChatMetadata(chatCall.chatId)>> \o others
          [] chatCall.op = "deleteChatFromIndex" -> others
          [] chatCall.op = "updateChatInIndex" ->
               [i \in DOMAIN loaded |->
                  IF i = FindIndex(loaded, chatCall.chatId)
                  THEN [loaded[i] EXCEPT !.is_important = chatCall.updates.is_important,
                                         !.last_activity = now]
                  ELSE loaded[i]]

\* loadUserIndex() returned: the operation changes index.chats and calls
\* saveUserIndex(), which awaits uploadBlob; updateChatInIndex returns
\* without saving where it does not find the chat
IndexLoaded(chatCall, loaded, fetch, now) ==
    IF chatCall.op = "updateChatInIndex" /\ FindIndex(loaded, chatCall.chatId) = 0
    THEN [chatCall EXCEPT !.pc = "done", !.fetch = fetch]
    ELSE [chatCall EXCEPT !.pc = "uploadBlob", !.fetch = fetch,
                      !.chats = ChatsAfter(chatCall, loaded, now)]

\* loadUserIndex() when the blob could not be fetched or parsed: the catch
\* returns an empty index
IndexAfterFetchFailure(c) == << >>

\* addChatToIndex, deleteChatFromIndex and updateChatInIndex begin with
\* loadUserIndex(), which reads the cached blob id; without one it returns an
\* empty index at once
IndexOpCalled(c, op, chatId, updates) ==
    /\ chatCalls[c].pc = "idle"
    /\ \E now \in Instants :
         chatCalls' = [chatCalls EXCEPT ![c] =
            LET chatCall == [IdleChatCall EXCEPT !.op = op, !.chatId = chatId,
                                             !.updates = updates]
            IN  IF serverCache = NoBlob
                THEN IndexLoaded(chatCall, << >>, "none", now)
                ELSE [chatCall EXCEPT !.pc = "getBlob", !.from = serverCache]]
    /\ UNCHANGED <<indexBlobs, serverCache>>

addChatToIndex(c, chatId) == IndexOpCalled(c, "addChatToIndex", chatId, NoUpdates)
deleteChatFromIndex(c, chatId) == IndexOpCalled(c, "deleteChatFromIndex", chatId, NoUpdates)
updateChatInIndex(c, chatId, updates) ==
    IndexOpCalled(c, "updateChatInIndex", chatId, updates)
\* setChatImportance() awaits updateChatInIndex() and does nothing else
setChatImportance(c, chatId, isImportant) ==
    updateChatInIndex(c, chatId, [is_important |-> isImportant])

\* saveUserIndex(index) called from outside: it awaits uploadBlob
saveUserIndex(c, chats) ==
    /\ chatCalls[c].pc = "idle"
    /\ chatCalls' = [chatCalls EXCEPT ![c] =
          [IdleChatCall EXCEPT !.pc = "uploadBlob", !.op = "saveUserIndex",
                               !.chats = chats]]
    /\ UNCHANGED <<indexBlobs, serverCache>>

\* clearCache(): serverCache.clear(), nothing is awaited
clearCache(c) ==
    /\ chatCalls[c].pc = "idle"
    /\ serverCache' = NoBlob
    /\ chatCalls' = [chatCalls EXCEPT ![c] =
          [IdleChatCall EXCEPT !.pc = "done", !.op = "clearCache"]]
    /\ UNCHANGED indexBlobs

\* getBlobAsString() returned the index blob
IndexBlobFetched(c) ==
    /\ chatCalls[c].pc = "getBlob"
    /\ \E now \in Instants :
         chatCalls' = [chatCalls EXCEPT ![c] =
            IndexLoaded(chatCalls[c], indexBlobs[chatCalls[c].from], "ok", now)]
    /\ UNCHANGED <<indexBlobs, serverCache>>

\* getBlobAsString() threw
IndexBlobFetchFails(c) ==
    /\ chatCalls[c].pc = "getBlob"
    /\ \E now \in Instants :
         chatCalls' = [chatCalls EXCEPT ![c] =
            IndexLoaded(chatCalls[c], IndexAfterFetchFailure(c), "failed", now)]
    /\ UNCHANGED <<indexBlobs, serverCache>>

\* the blob id that saveUserIndex() caches: the one uploadBlob returned
CachedAfterSave(newId) == newId

\* saveUserIndex(): uploadBlob() returned the id of the blob it stored, the
\* id is cached
IndexUploaded(c) ==
    /\ chatCalls[c].pc = "uploadBlob"
    /\ indexBlobs' = Append(indexBlobs, chatCalls[c].chats)
    /\ serverCache' = CachedAfterSave(Len(indexBlobs) + 1)
    /\ chatCalls' = [chatCalls EXCEPT ![c].pc = "done",
                                      ![c].saved = Len(indexBlobs) + 1]

\* saveUserIndex(): uploadBlob() threw, the call is rejected
IndexUploadFails(c) ==
    /\ chatCalls[c].pc = "uploadBlob"
    /\ chatCalls' = [chatCalls EXCEPT ![c].pc = "failed"]
    /\ UNCHANGED <<indexBlobs, serverCache>>

\* the chats of the index the cached blob id points to
CurrentIndex == IF serverCache = NoBlob THEN << >> ELSE indexBlobs[serverCache]

ChatIndexStep ==
    \/ \E c \in ChatCalls, chatId \in ChatIds :
          \/ addChatToIndex(c, chatId)
          \/ deleteChatFromIndex(c, chatId)
          \/ \E updates \in Updates : updateChatInIndex(c, chatId, updates)
          \/ \E isImportant \in BOOLEAN : setChatImportance(c, chatId, isImportant)
    \/ \E c \in ChatCalls :
          \/ \E chats \in SavedIndexes : saveUserIndex(c, chats)
          \/ clearCache(c)
          \/ IndexBlobFetched(c)
          \/ IndexBlobFetchFails(c)
          \/ IndexUploaded(c)
          \/ IndexUploadFails(c)

(***************************************************************************)
(* getUserChatService (lib/chat-api-helpers.ts), for one user address      *)
(***************************************************************************)
MaxRegistries == 3

ServiceCalls == {"r1", "r2", "r3"}
NoRegistry == 0

ServiceUnused ==
    /\ userRegistryCache = NoRegistry
    /\ registriesCreated = 0
    /\ serviceCalls = [c \in ServiceCalls |-> [pc |-> "idle", registryId |-> NoRegistry]]
    /\ cacheTouched = FALSE

ServiceInit == ServiceUnused

\* getUserChatService(): a cached registry id is used; without one the call
\* awaits chatClient.createRegistry()
GetUserChatServiceCalled(c) ==
    /\ serviceCalls[c].pc \in {"idle", "returned", "threw"}
    /\ registriesCreated
         + Cardinality({x \in ServiceCalls : serviceCalls[x].pc = "createRegistry"})
         < MaxRegistries
    /\ serviceCalls' = [serviceCalls EXCEPT ![c] =
          IF userRegistryCache # NoRegistry
          THEN [pc |-> "returned", registryId |-> userRegistryCache]
          ELSE [pc |-> "createRegistry", registryId |-> NoRegistry]]
    /\ UNCHANGED <<userRegistryCache, registriesCreated, cacheTouched>>

\* createRegistry() returned a new registry id: it is cached and the service
\* is bound to it
RegistryCreated(c) ==
    /\ serviceCalls[c].pc = "createRegistry"
    /\ registriesCreated' = registriesCreated + 1
    /\ userRegistryCache' = registriesCreated + 1
    /\ serviceCalls' = [serviceCalls EXCEPT ![c] =
          [pc |-> "returned", registryId |-> registriesCreated + 1]]
    /\ UNCHANGED cacheTouched

\* createRegistry() threw: the call is rejected
CreateRegistryFails(c) ==
    /\ serviceCalls[c].pc = "createRegistry"
    /\ serviceCalls' = [serviceCalls EXCEPT ![c].pc = "threw"]
    /\ UNCHANGED <<userRegistryCache, registriesCreated, cacheTouched>>

clearUserRegistryCache ==
    /\ userRegistryCache' = NoRegistry
    /\ cacheTouched' = TRUE
    /\ UNCHANGED <<registriesCreated, serviceCalls>>

setCachedRegistryId(registryId) ==
    /\ userRegistryCache' = registryId
    /\ cacheTouched' = TRUE
    /\ UNCHANGED <<registriesCreated, serviceCalls>>

ServiceStep ==
    \/ \E c \in ServiceCalls :
          \/ GetUserChatServiceCalled(c)
          \/ RegistryCreated(c)
          \/ CreateRegistryFails(c)
    \/ clearUserRegistryCache
    \/ \E id \in 1..MaxRegistries : setCachedRegistryId(id)

(***************************************************************************)
(* The sync engine against a registry that the ingestion server writes to  *)
(***************************************************************************)
\* the server's registry transactions: the ingestion server registers each
\* document with the chunk count of its vector blob.  Only its committed
\* transactions are taken: an aborted one changes nothing the cache reads.
ServerRegistryWrite ==
    /\ \/ \E f \in FileNames, vb \in VectorBlobIds :
            add_document(ServerAddress, f, vb, "d1", ChunksIn(vb))
       \/ \E f \in FileNames, vb \in VectorBlobIds :
            update_document_vectors(ServerAddress, f, vb, ChunksIn(vb))
       \/ \E f \in FileNames : remove_document(ServerAddress, f)
    /\ Committed(tx')

SyncStep ==
    \/ \E c \in TimerCallers : BackgroundSyncTick(c)
    \/ EventTrigger
    \/ \E c \in Callers :
         /\ \/ SyncStats(c)
            \/ SyncList(c)
            \/ SyncRegistryUnavailable(c)
            \/ SyncFetch(c)
            \/ SyncFetchFails(c)
            \/ SyncCommit(c)
         /\ UNCHANGED cmVars

\* the calls that load the vector store, next to the sync engine: the
\* initialize() on module load and forceSync()
CacheManagerStep ==
    /\ \/ InitializeCalled("load")
       \/ InitializeResumes("load")
       \/ ForceSyncStep("forceSync")
    /\ UNCHANGED lastCalled

\* the calls that set and clear the interval timer: the initialize() on
\* module load and the SIGTERM handler
TimerLifecycleStep ==
    /\ \/ InitializeCalled("load")
       \/ InitializeResumes("load")
       \/ ShutdownCalled("SIGTERM")
       \/ EventSyncStopSettles("SIGTERM")
    /\ UNCHANGED lastCalled

Init ==
    /\ RegistryInit /\ EngineInit /\ CacheManagerInit /\ StatusInit /\ StoreUnused
    /\ QueryInit /\ IngestInit /\ IndexUnused /\ ChunkUnused /\ ChatIndexUnused /\ ServiceUnused

Next ==
    \/ ServerRegistryWrite /\ UNCHANGED <<engineVars, cmVars, status, storeVars, queryVars, ingestVars, indexVars, chunkVars, chatVars, svcVars>>
    \/ SyncStep /\ UNCHANGED <<regVars, status, storeVars, queryVars, ingestVars, indexVars, chunkVars, chatVars, svcVars>>
    \/ CacheManagerStep /\ UNCHANGED <<regVars, status, storeVars, queryVars, ingestVars, indexVars, chunkVars, chatVars, svcVars>>

Spec == Init /\ [][Next]_vars

(***************************************************************************)
(* CacheManager under overlapping calls, as a specification               *)
(***************************************************************************)
LifecycleSpecInit ==
    /\ RegistryInit /\ EngineInit /\ CacheManagerInit /\ StatusInit /\ StoreUnused
    /\ QueryInit /\ IngestInit /\ IndexUnused /\ ChunkUnused /\ ChatIndexUnused /\ ServiceUnused

LifecycleNext ==
    LifecycleStep
      /\ UNCHANGED <<regVars, status, storeVars, queryVars, ingestVars,
                     indexVars, chunkVars, chatVars, svcVars>>

LifecycleSpec == LifecycleSpecInit /\ [][LifecycleNext]_vars

(***************************************************************************)
(* The background sync timer alone, under fair ticks: the interval timer   *)
(* keeps firing while it is set, and a call that is awaited gets an answer *)
(***************************************************************************)
\* the registry writes followed while the timer is observed
MaxWrites == 2

TimerTicks == \E c \in TimerCallers : BackgroundSyncTick(c)
TimerSyncProceeds == \E c \in TimerCallers : BackgroundSyncProceeds(c)
TimerSyncFails == \E c \in TimerCallers : BackgroundSyncFails(c)

RetryNext ==
    \/ version < MaxWrites /\ ServerRegistryWrite /\ UNCHANGED <<engineVars, cmVars, status, storeVars, queryVars, ingestVars, indexVars, chunkVars, chatVars, svcVars>>
    \/ TimerTicks /\ UNCHANGED <<regVars, status, storeVars, queryVars, ingestVars, indexVars, chunkVars, chatVars, svcVars>>
    \/ TimerSyncProceeds /\ UNCHANGED <<regVars, status, storeVars, queryVars, ingestVars, indexVars, chunkVars, chatVars, svcVars>>
    \/ TimerSyncFails /\ UNCHANGED <<regVars, status, storeVars, queryVars, ingestVars, indexVars, chunkVars, chatVars, svcVars>>
    \/ TimerLifecycleStep /\ UNCHANGED <<regVars, status, storeVars, queryVars, ingestVars, indexVars, chunkVars, chatVars, svcVars>>

RetrySpecInit ==
    /\ RegistryInit /\ EngineInit /\ CacheManagerDefaultEnv /\ StatusInit /\ StoreUnused
    /\ QueryInit /\ IngestInit /\ IndexUnused /\ ChunkUnused /\ ChatIndexUnused /\ ServiceUnused

RetrySpec ==
    /\ RetrySpecInit
    /\ [][RetryNext]_vars
    /\ WF_vars(TimerTicks /\ UNCHANGED <<regVars, status, storeVars, queryVars, ingestVars, indexVars, chunkVars, chatVars, svcVars>>)
    /\ WF_vars(TimerSyncProceeds /\ UNCHANGED <<regVars, status, storeVars, queryVars, ingestVars, indexVars, chunkVars, chatVars, svcVars>>)

(***************************************************************************)
(* The chat index of one user under overlapping calls                      *)
(***************************************************************************)
ChatIndexSpecInit ==
    /\ RegistryInit /\ EngineInit /\ CacheManagerDefaultEnv /\ StatusInit /\ StoreUnused
    /\ QueryInit /\ IngestInit /\ IndexUnused /\ ChunkUnused
    /\ ChatIndexInit /\ ServiceUnused

ChatIndexNext ==
    ChatIndexStep
      /\ UNCHANGED <<regVars, engineVars, cmVars, status, storeVars, queryVars, ingestVars,
                     indexVars, chunkVars, svcVars>>

ChatIndexSpec == ChatIndexSpecInit /\ [][ChatIndexNext]_vars

(***************************************************************************)
(* getUserChatService under overlapping calls                              *)
(***************************************************************************)
ServiceSpecInit ==
    /\ RegistryInit /\ EngineInit /\ CacheManagerDefaultEnv /\ StatusInit /\ StoreUnused
    /\ QueryInit /\ IngestInit /\ IndexUnused /\ ChunkUnused
    /\ ChatIndexUnused /\ ServiceInit

ServiceNext ==
    ServiceStep
      /\ UNCHANGED <<regVars, engineVars, cmVars, status, storeVars, queryVars, ingestVars,
                     indexVars, chunkVars, chatVars>>

ServiceSpec == ServiceSpecInit /\ [][ServiceNext]_vars

(***************************************************************************)
(* The registry under transactions of any sender                          *)
(***************************************************************************)
RegistryNext == RegistryWrite /\ UNCHANGED <<engineVars, cmVars, status, storeVars, queryVars, ingestVars, indexVars, chunkVars, chatVars, svcVars>>

RegistrySpec == Init /\ [][RegistryNext]_vars

(***************************************************************************)
(* The status report beside a cache kept in sync by one background timer   *)
(***************************************************************************)
StatusNext ==
    \/ ServerRegistryWrite /\ UNCHANGED <<engineVars, cmVars, status, storeVars, queryVars, ingestVars, indexVars, chunkVars, chatVars, svcVars>>
    \/ (InitializeCalled("load") \/ InitializeResumes("load")) /\ UNCHANGED lastCalled
         /\ UNCHANGED <<regVars, status, storeVars, queryVars, ingestVars, indexVars, chunkVars, chatVars, svcVars>>
    \/ BackgroundSyncTick("tick1") /\ UNCHANGED <<regVars, status, storeVars, queryVars, ingestVars, indexVars, chunkVars, chatVars, svcVars>>
    \/ (SyncStats("tick1") \/ SyncList("tick1") \/ SyncFetch("tick1")
          \/ SyncCommit("tick1"))
         /\ UNCHANGED <<regVars, cmVars, status, storeVars, queryVars, ingestVars, indexVars, chunkVars, chatVars, svcVars>>
    \/ GetStatus

StatusSpec == Init /\ [][StatusNext]_vars

(***************************************************************************)
(* Overlapping operations on one VectorStoreService                        *)
(***************************************************************************)
StoreSpecInit ==
    RegistryInit /\ EngineInit /\ CacheManagerDefaultEnv /\ StatusInit /\ StoreInit
      /\ QueryInit /\ IngestInit /\ IndexUnused /\ ChunkUnused /\ ChatIndexUnused /\ ServiceUnused

StoreNext == StoreStep /\ UNCHANGED <<regVars, engineVars, cmVars, status, queryVars, ingestVars, indexVars, chunkVars, chatVars, svcVars>>

StoreSpec == StoreSpecInit /\ [][StoreNext]_vars

(***************************************************************************)
(* One query() over any search outcome and any fetch outcomes              *)
(***************************************************************************)
QuerySpecInit ==
    /\ RegistryInit /\ EngineInit /\ CacheManagerDefaultEnv /\ StatusInit /\ StoreUnused
    /\ QueryInit /\ IngestInit /\ IndexUnused /\ ChunkUnused /\ ChatIndexUnused /\ ServiceUnused

QueryNext == QueryStep /\ UNCHANGED <<regVars, engineVars, cmVars, status, storeVars, ingestVars, indexVars, chunkVars, chatVars, svcVars>>

QuerySpec == QuerySpecInit /\ [][QueryNext]_vars

(***************************************************************************)
(* ingestDocument() on a VectorStoreService that initialize() and another  *)
(* addDocuments() are called on as well                                    *)
(***************************************************************************)
IngestStoreStep ==
    \/ InitializeStep
    \/ AddDocumentsCall("addB", Batch("addB"))
    \/ AddVectors("addB")
    \/ EmbedFails("addB")
    \/ \E p \in {"addB", "init"} : SaveStep(p)
    \/ DeleteStep

IngestNext ==
    \/ IngestStep /\ UNCHANGED <<regVars, engineVars, cmVars, status, queryVars, indexVars, chunkVars, chatVars, svcVars>>
    \/ IngestStoreStep
         /\ UNCHANGED <<regVars, engineVars, cmVars, status, queryVars, ingestVars, indexVars, chunkVars, chatVars, svcVars>>

IngestSpec == StoreSpecInit /\ [][IngestNext]_vars

(***************************************************************************)
(* The entries of one VectorStoreService: any batch added, any search, and  *)
(* vector-serialization on them                                            *)
(***************************************************************************)
IndexSpecInit ==
    /\ RegistryInit /\ EngineInit /\ CacheManagerDefaultEnv /\ StatusInit /\ IndexStoreInit
    /\ QueryInit /\ IngestInit /\ IndexInit /\ ChunkUnused /\ ChatIndexUnused /\ ServiceUnused

IndexNext ==
    \/ IndexStoreStep(DocumentBatches)
         /\ UNCHANGED <<regVars, engineVars, cmVars, status, queryVars, ingestVars,
                        indexVars, chunkVars, chatVars, svcVars>>
    \/ IndexStep
         /\ UNCHANGED <<regVars, engineVars, cmVars, status, storeVars, queryVars, ingestVars,
                        chunkVars, chatVars, svcVars>>

IndexSpec == IndexSpecInit /\ [][IndexNext]_vars

(***************************************************************************)
(* similaritySearch() with any arguments on one VectorStoreService that     *)
(* initialize() and addDocuments() are called on as well                   *)
(***************************************************************************)
SearchNext ==
    (IndexStoreStep(SearchedBatches) \/ SearchStep)
      /\ UNCHANGED <<regVars, engineVars, cmVars, status, queryVars, ingestVars,
                     indexVars, chunkVars, chatVars, svcVars>>

SearchSpec == IndexSpecInit /\ [][SearchNext]_vars

(***************************************************************************)
(* chunkDocument() on any of its inputs                                    *)
(***************************************************************************)
ChunkSpecInit ==
    /\ RegistryInit /\ EngineInit /\ CacheManagerDefaultEnv /\ StatusInit /\ StoreUnused
    /\ QueryInit /\ IngestInit /\ IndexUnused /\ ChunkInit /\ ChatIndexUnused /\ ServiceUnused

ChunkNext ==
    ChunkDocument
      /\ UNCHANGED <<regVars, engineVars, cmVars, status, storeVars, queryVars, ingestVars,
                     indexVars, chatVars, svcVars>>

ChunkSpec == ChunkSpecInit /\ [][ChunkNext]_vars

(***************************************************************************)
(* Claims                                                                  *)
(***************************************************************************)
\* a step in which the syncIfStale() call of c, which held the lock, ends
\* with `outcome`
Ends(c, outcome) ==
    /\ call[c].pc \in {"stats", "list", "fetch"}
    /\ call'[c].pc = "idle"
    /\ result'.outcome = outcome

\* C1: single-flight resync.  At most one syncIfStale() runs at any time; a
\* trigger that arrives while one is running starts no rebuild of its own: it
\* waits, and leaves the wait only when the running call completes.
C1_SingleFlight ==
    /\ [](Cardinality(InFlight) <= 1)
    /\ [][\A c \in Callers :
            /\ (call[c].pc = "idle" /\ call'[c].pc # "idle" /\ InFlight # {})
                 => call'[c].pc = "join"
            /\ (call[c].pc = "join" /\ call'[c].pc # "join")
                 => (call'[c].pc = "idle" /\ InFlight # {} /\ InFlight' = {})]_vars

\* a tick and the event trigger both wait for the resync of an earlier tick
C1_Witness ==
    /\ call["tick1"].pc = "fetch"
    /\ call["tick2"].pc = "join"
    /\ call["event"].pc = "join"

\* C2: atomic resync.  While a resync runs the readable index and the local
\* version stay what they were when it began, and when it is aborted by a
\* failed blob fetch they are still exactly that.
C2_AtomicResync ==
    /\ [](\A c \in InFlight :
            /\ index = call[c].before.entries
            /\ localVersion = call[c].before.version)
    /\ [][\A c \in Callers :
            Ends(c, "blob_fetch_failed")
              => /\ index' = call[c].before.entries
                 /\ localVersion' = call[c].before.version
                 /\ snapshot' = snapshot]_vars

\* a resync failed after it had fetched some blobs, and the index still holds
\* the earlier, non-empty content
C2_Witness ==
    /\ result.outcome = "blob_fetch_failed"
    /\ result.fetched > 0
    /\ index # << >>
    /\ InFlight = {}

\* the elements of a sequence
Range(seq) == {seq[i] : i \in 1..Len(seq)}

\* the entries an addDocuments() call appends for its batch
BatchVectors(p) == Range(MemoryVectors(embeddingModel, Batch(p)))

\* of every batch added, seq holds all the documents or none
WholeBatches(seq) ==
    \A p \in Adders :
        \/ BatchVectors(p) \subseteq Range(seq)
        \/ BatchVectors(p) \cap Range(seq) = {}

C4_StaleIffGreater ==
    status.isStale <=> (status.registry > status.localCache)

\* a report on equal versions, which is not stale
C4_Witness ==
    /\ status.registry >= 1
    /\ status.registry = status.localCache
    /\ ~status.isStale

\* C5: post-sync freshness.  When a syncIfStale() that resynced completes, the
\* local version is the registry version that call read, and the cache is not
\* stale against that version.
C5_FreshAfterSync ==
    [][\A c \in Callers :
         Ends(c, "synced")
           => /\ localVersion' = call[c].ver
              /\ ~isStale(call[c].ver, localVersion')
              /\ isStale(call[c].ver, call[c].before.version)]_vars

\* the registry jumped by two versions and a resync caught up with it
C5_Witness ==
    /\ result.outcome = "synced"
    /\ localVersion >= result.from + 2
    /\ localVersion = version

\* C6: every committed add_document, update_document_vectors and
\* remove_document raises version by exactly 1, an aborted call leaves it
\* unchanged, and version never decreases.
C6_VersionMonotonic ==
    [][regVars' # regVars
         => /\ tx'.fn \in {"add_document", "update_document_vectors",
                           "remove_document"}
            /\ Committed(tx') => version' = version + 1
            /\ ~Committed(tx') => version' = version
            /\ version' >= version]_vars

\* a document was added and then removed: two bumps
C6_Witness ==
    /\ tx.fn = "remove_document"
    /\ Committed(tx)
    /\ version = 3

\* C8: writers are serialized.  Once both addDocuments() calls have
\* returned (no initialize() is running, no delete() was called), the
\* in-memory index and the persisted snapshot both hold every document of
\* both batches.
C8_NoLostWrite ==
    (/\ \A p \in Adders : pc[p] = "done"
     /\ Settled("init")
     /\ pc["delete"] = "idle")
      => /\ \A p \in Adders : BatchVectors(p) \subseteq Range(memoryVectors[store])
         /\ Parses(FileText(storageFile))
         /\ \A p \in Adders :
              BatchVectors(p) \subseteq Range(LoadText(FileText(storageFile)))

\* C7: availability over freshness.  A syncIfStale() that cannot reach the
\* registry ends in failure, leaves index, local version and persisted
\* snapshot as they were, and the index stays readable.
C7_RegistryUnavailable ==
    [][\A c \in Callers :
         Ends(c, "registry_unavailable")
           => /\ index' = call[c].before.entries
              /\ localVersion' = call[c].before.version
              /\ snapshot' = snapshot
              /\ engineState' \in {"Ready", "Resyncing"}]_vars

\* the registry was unreachable while the cache was stale and not empty
C7_Witness ==
    /\ result.outcome = "registry_unavailable"
    /\ isStale(version, localVersion)
    /\ index # << >>

\* the hits whose fetch succeeded, as (blobId, score), in the order of the hits
FetchedHits ==
    LET ok == SelectSeq([i \in 1..Len(searchResults) |-> i],
                        LAMBDA i : fetches[i] = "ok")
    IN  [k \in 1..Len(ok) |-> searchResults[ok[k]]]

\* the sources of the result, as (blobId, score)
ReturnedHits ==
    [k \in 1..Len(ragResult.sources) |->
        [blobId |-> ragResult.sources[k].blobId, score |-> ragResult.sources[k].score]]

\* C9: the sources of a returned result are in the order in which the search
\* returned their hits, hence by descending score, whatever the order in
\* which the blob fetches completed.
C9_SourcesInScoreOrder ==
    queryPc \in {"generate", "returned"}
      => /\ ReturnedHits = FetchedHits
         /\ \A k \in 1..(Len(ragResult.sources) - 1) :
              ragResult.sources[k].score >= ragResult.sources[k + 1].score

\* a result with three sources of distinct scores whose fetches completed in
\* the reverse of the score order
C9_Witness ==
    /\ queryPc = "returned"
    /\ Len(ragResult.sources) = 3
    /\ completion = <<3, 2, 1>>
    /\ ragResult.sources[1].score > ragResult.sources[2].score
    /\ ragResult.sources[2].score > ragResult.sources[3].score

\* C10 as stated: when at least one blob fetch succeeded the query does not
\* fail, and the result holds exactly the hits whose fetch succeeded.
C10_QuerySucceedsIfOneFetched ==
    (/\ queryPc \in {"returned", "threw"}
     /\ \E i \in DOMAIN fetches : fetches[i] = "ok")
      => /\ queryPc = "returned"
         /\ ReturnedHits = FetchedHits
         /\ ragResult.documentsRetrieved = Len(FetchedHits)

\* C10, amended: a failed fetch never makes query() fail (it throws only for
\* the search or the generation step); when at least one fetch succeeded the
\* generation step is invoked, and the result then returned holds exactly the
\* hits whose fetch succeeded, with documentsRetrieved their number.
C10_FetchFailuresTolerated ==
    /\ queryPc = "threw" => queryError \in {"search", "generation"}
    /\ (/\ queryPc \in {"generate", "returned", "threw"}
        /\ \E i \in DOMAIN fetches : fetches[i] = "ok")
         => /\ queryPc = "threw" => queryError = "generation"
            /\ context # << >>
            /\ queryPc = "returned"
                 => /\ ReturnedHits = FetchedHits
                    /\ \A k \in DOMAIN ragResult.sources :
                         /\ ragResult.sources[k] # NullSource
                         /\ ragResult.sources[k].content
                              = BlobAsString(ragResult.sources[k].blobId)
                    /\ ragResult.documentsRetrieved = Len(FetchedHits)
                    /\ ragResult.documentsRetrieved
                         = Cardinality({i \in DOMAIN fetches : fetches[i] = "ok"})

\* a result returned with one of three fetches failed
C10_Witness ==
    /\ queryPc = "returned"
    /\ Len(searchResults) = 3
    /\ fetches[2] = "failed"
    /\ fetches[1] = "ok"
    /\ fetches[3] = "ok"
    /\ ragResult.documentsRetrieved = 2

\* C11: when the search returned at least one hit and every blob fetch failed,
\* query() returns (does not throw) the fixed "could not retrieve" answer
\* with no sources and documentsRetrieved = 0, and the generation step is
\* never invoked.
C11_AllFetchesFailedFallback ==
    (/\ Len(searchResults) > 0
     /\ \A i \in DOMAIN fetches : fetches[i] = "failed")
      => /\ queryPc \in {"fetch", "returned"}
         /\ queryError = "none"
         /\ context = << >>
         /\ queryPc = "returned"
              => /\ ragResult.answer = COULD_NOT_RETRIEVE
                 /\ ragResult.sources = << >>
                 /\ ragResult.documentsRetrieved = 0

\* a query that returned after the fetches of all its three hits failed
C11_Witness ==
    /\ queryPc = "returned"
    /\ Len(searchResults) = 3
    /\ \A i \in 1..3 : fetches[i] = "failed"
    /\ ragResult.answer = COULD_NOT_RETRIEVE

\* C12: when the search returns no entry, query() returns the fixed "could
\* not find any relevant documents" answer with sources = [] and
\* documentsRetrieved = 0, having started no blob fetch and no generation.
C12_EmptyResultPath ==
    /\ (queryPc \notin {"idle", "search"} /\ queryError # "search"
          /\ Len(searchResults) = 0)
         => /\ queryPc = "returned"
            /\ ragResult.answer = NO_RELEVANT_DOCUMENTS
            /\ ragResult.sources = << >>
            /\ ragResult.documentsRetrieved = 0
            /\ fetches = << >>
            /\ completion = << >>
            /\ context = << >>
            /\ queryError = "none"
    /\ (queryPc = "returned" /\ ragResult.answer = NO_RELEVANT_DOCUMENTS)
         => Len(searchResults) = 0

\* a query that returned on the empty-result path
C12_Witness ==
    /\ queryPc = "returned"
    /\ searchResults = << >>
    /\ ragResult = RAGResult(NO_RELEVANT_DOCUMENTS, << >>)

\* C13: when the search (embedding included) or the generation step fails,
\* query() ends with the error thrown to its caller, never with a returned
\* RAGResult: a call that returns had no failed step, it returns from the
\* search only on the empty-result path, and from the generation step never
\* with one of the two fallback answers.
C13_HardFailuresPropagate ==
    /\ [](queryError # "none" => queryPc = "threw")
    /\ [](queryPc = "returned" => queryError = "none")
    /\ [][queryPc = "search" /\ queryPc' = "returned"
            => searchResults' = << >> /\ queryError' = "none"]_vars
    /\ [][queryPc = "generate" /\ queryPc' = "returned"
            => ragResult'.answer \notin {NO_RELEVANT_DOCUMENTS, COULD_NOT_RETRIEVE}]_vars

\* a query whose generation step failed after two blobs were fetched
C13_Witness ==
    /\ queryPc = "threw"
    /\ queryError = "generation"
    /\ Len(context) = 2

\* the entries that a file holds: those that loadFromDisk() would give the
\* store
EntriesOf(file) ==
    IF Parses(FileText(file)) /\ Member(FileText(file), "memoryVectors") # TypeError
    THEN LoadText(FileText(file))
    ELSE << >>
FileEntries == EntriesOf(storageFile)
\* every entry there is: in a store object, in the file, in a file that was
\* unlinked, in a text on its way to the file
EntriesAnywhere ==
    UNION {Range(memoryVectors[i]) : i \in DOMAIN memoryVectors}
      \cup Range(FileEntries)
      \cup Range(EntriesOf(unlinked))
      \cup UNION {Range(s) : s \in committed}
      \cup UNION {Range(LoadText(data[p])) :
                    p \in {q \in Adders \cup {"init"} : pc[q] \in {"writeFile", "write"}}}
\* the entries of the document that ingestDocument() is called for
IngestedEntries == {e \in EntriesAnywhere : e.metadata.filename = IngestFilename}

\* C14: when storing the raw content in the Blob Store fails, ingest fails
\* and nothing else has happened: no entry of the document is in the index,
\* the step that fails leaves the index, the persisted snapshot and the
\* registry as they were, and no addDocuments() and no registry write is made
\* for the document afterwards.
C14_IngestAbortsAtBlobStore ==
    /\ [](uploadOutcome = "failed"
            => /\ ingestPc = "threw"
               /\ blob = NoUpload
               /\ storedDoc = NoStoredDoc
               /\ pc["addA"] = "idle"
               /\ IngestedEntries = {}
               /\ ~table_contains(documents, IngestFilename)
               /\ version = 1)
    /\ [][uploadOutcome' = "failed" /\ uploadOutcome # "failed"
            => UNCHANGED <<storeVars, regVars>>]_vars

\* an ingest that failed at the upload while another addDocuments() had
\* added its entry to the index and rewritten the snapshot
C14_Witness ==
    /\ ingestPc = "threw"
    /\ uploadOutcome = "failed"
    /\ store # 0
    /\ BatchVectors("addB") \subseteq Range(FileEntries)

\* C15: after ingest returned successfully the registry holds a record for
\* the document whose chunk count is the number of chunks added to the index
\* for it, and the registry version has been bumped.
C15_IngestRegistersDocument ==
    ingestPc = "returned"
      => /\ table_contains(documents, IngestFilename)
         /\ documents[IngestFilename].chunk_count = Len(IngestChunks)
         /\ documents[IngestFilename].document_blob_id = storedDoc.blobId
         /\ version > 1

\* C16: in every reachable state all entries retained in the index have the
\* same embedding length (an add or a load with an entry of another length
\* would have been rejected, leaving the index unchanged).
C16_DimensionInvariant ==
    \A obj \in DOMAIN memoryVectors :
        \A i, j \in DOMAIN memoryVectors[obj] :
            Len(memoryVectors[obj][i].embedding) = Len(memoryVectors[obj][j].embedding)

\* C17: for every index content, query, k > 0 and filter, the search returns
\* exactly min(k, number of entries whose metadata satisfies the filter)
\* results, never more than k, and the empty sequence when nothing matches.
C17_TopKBound ==
    searched.outcome # "none"
      => /\ searched.outcome = "returned"
         /\ Len(searched.results) <= searched.k
         /\ Len(searched.results)
              = (IF searched.k < searched.matching THEN searched.k ELSE searched.matching)
         /\ searched.matching = 0 => searched.results = << >>

\* two JSON values are the same string or the same number
StrictEquals(a, b) == a.t = b.t /\ a.v = b.v

\* C18: deserializing the serialization of a snapshot S yields S again (its
\* entries one for one and in order, its dimension, its version), at
\* whatever time it is serialized; the text that save() writes for the index
\* loads back as the entry sequence saved, and loadFromDisk() gives the store
\* the entry sequence of the text it read.
C18_SnapshotRoundTrip ==
    /\ []((roundTrip.stage = "deserialized" /\ roundTrip.text \notin ForeignTexts)
            => /\ roundTrip.output # InvalidFormat
               /\ roundTrip.output.vectors = roundTrip.input.entries
               /\ roundTrip.output.dimensions = roundTrip.input.dimension
               /\ StrictEquals(roundTrip.output.version,
                               JsonNumber(roundTrip.input.version)))
    /\ [][\A p \in {"addA", "init"} :
            (pc[p] = "mkdir" /\ pc'[p] = "writeFile")
              => LoadText(data'[p]) = memoryVectors[store]]_vars
    /\ [][(pc["init"] = "parse" /\ pc'["init"] = "done")
            => /\ memoryVectors'[store'] = LoadText(data["init"])
               /\ SaveText(memoryVectors'[store']) = data["init"]]_vars

\* C19: registering a document whose key already exists in the registry
\* replaces the prior record and bumps the version: no registration is
\* refused because its key exists.
C19_ReingestionSupersedes ==
    ~(tx.fn = "add_document" /\ tx.abort = {E_DOCUMENT_EXISTS})

\* C20: when memory-store.json exists but does not parse, initialize() does
\* not end failed: the snapshot is discarded and the index rebuilt.
C20_CorruptSnapshotRecovered ==
    pc["init"] # "failed"

\* C21: initialize() with a snapshot file ends with a store that holds
\* exactly the persisted entries; with no snapshot file it is not an error:
\* it ends with an empty store and a snapshot file persisted, so that a
\* following initialize() takes the load path.  (An initialize() that a
\* delete() runs into is left aside.)
C21_Bootstrap ==
    /\ [][(pc["init"] = "parse" /\ pc'["init"] = "done")
            => memoryVectors'[store'] = LoadText(data["init"])]_vars
    /\ [][(pc["init"] = "access" /\ pc'["init"] # "access" /\ ~FileExists(storageFile))
            => pc'["init"] = "create"]_vars
    /\ [][(pc["init"] = "create" /\ pc'["init"] # "create")
            => /\ pc'["init"] = "mkdirInit"
               /\ memoryVectors'[store'] = << >>]_vars
    /\ [](pc["delete"] = "idle"
            => pc["init"] \notin {"enoent", "notInitialized", "typeError"})
    /\ [][(pc["init"] = "close" /\ pc'["init"] = "done")
            => FileExists(storageFile')]_vars

\* the windows of a chunking input: window i (from 0) is the text from
\* position i*(size-overlap) up to, not including, i*(size-overlap)+size, for
\* every i whose start is inside the text
WindowCount(in) ==
    IF Len(in.content) = 0 THEN 0
    ELSE ((Len(in.content) - 1) \div (in.chunkSize - in.chunkOverlap)) + 1
Window(in, i) ==
    LET start == i * (in.chunkSize - in.chunkOverlap)
        end == IF start + in.chunkSize < Len(in.content)
               THEN start + in.chunkSize ELSE Len(in.content)
    IN  [k \in 1..(end - start) |-> in.content[start + k]]
\* a window without the whitespace at its two ends
WithoutOuterBlanks(w) ==
    LET kept == {k \in 1..Len(w) : w[k] # " "}
        first == CHOOSE k \in kept : \A x \in kept : k <= x
        last == CHOOSE k \in kept : \A x \in kept : k >= x
    IN  IF kept = {} THEN << >> ELSE [k \in 1..(last - first + 1) |-> w[first + k - 1]]
ExpectedChunks(in) ==
    LET trimmed == [i \in 1..WindowCount(in) |-> WithoutOuterBlanks(Window(in, i - 1))]
        kept == SelectSeq(trimmed, LAMBDA w : w # << >>)
    IN  IF kept = << >> THEN <<in.content>> ELSE kept
IsScenarioB(in) ==
    /\ Len(in.content) = 2500
    /\ in.chunkSize = ConfigChunkSize
    /\ in.chunkOverlap = ConfigChunkOverlap
NonBlank(text) == \E k \in 1..Len(text) : text[k] # " "

\* C22 as stated: the output is the sequence of the trimmed windows that are
\* not empty, or [text] when there is none; and a 2500-character non-blank
\* document with size 1000 and overlap 200 yields 4 chunks.
C22_ChunkerAlgorithm ==
    chunkOut # << >>
      => /\ chunkOut = ExpectedChunks(chunkIn)
         /\ (IsScenarioB(chunkIn) /\ NonBlank(chunkIn.content)) => Len(chunkOut) = 4

\* C22, amended: the output is the sequence of the trimmed windows that are
\* not empty, or [text] when there is none; a 2500-character document with
\* size 1000 and overlap 200 has 4 windows and yields 4 chunks when none of
\* its windows is blank (one chunk fewer for every blank window).
C22_ChunkerWindows ==
    chunkOut # << >>
      => /\ chunkOut = ExpectedChunks(chunkIn)
         /\ IsScenarioB(chunkIn)
              => /\ WindowCount(chunkIn) = 4
                 /\ (\A i \in 0..3 : NonBlank(Window(chunkIn, i))) => Len(chunkOut) = 4
                 /\ NonBlank(chunkIn.content)
                      => Len(chunkOut)
                           = Cardinality({i \in 0..3 : NonBlank(Window(chunkIn, i))})

\* a 2500-character document with blanks in it was chunked into 4 chunks, the
\* last one being its last 100 characters without the blank that leads them
C22_Witness ==
    /\ IsScenarioB(chunkIn)
    /\ \E k \in 1..2500 : chunkIn.content[k] = " "
    /\ Len(chunkOut) = 4
    /\ Len(chunkOut[1]) = 1000
    /\ Len(chunkOut[4]) = 99

\* the chunks put together again: the first chunk whole, every later chunk
\* without its leading `overlap` characters
WithoutOverlap(c, overlap) == SubSeq(c, overlap + 1, Len(c))
RECURSIVE Reconstruct(_, _)
Reconstruct(cs, overlap) ==
    IF Len(cs) = 0 THEN << >>
    ELSE IF Len(cs) = 1 THEN cs[1]
    ELSE Reconstruct(SubSeq(cs, 1, Len(cs) - 1), overlap)
           \o WithoutOverlap(cs[Len(cs)], overlap)
IsPrefixOf(s, text) == Len(s) <= Len(text) /\ s = SubSeq(text, 1, Len(s))
\* no window of the input begins or ends with whitespace, so that trimming
\* changes none and drops none
NoOuterBlanks(in) ==
    \A i \in 0..(WindowCount(in) - 1) :
        LET w == Window(in, i) IN w[1] # " " /\ w[Len(w)] # " "

\* C23 as stated: for every input text, the chunks put together again, each
\* chunk after the first without its leading `overlap` characters, are
\* consistent with the original text: they spell out the text from its start.
C23_ChunkReconstruction ==
    chunkOut # << >>
      => IsPrefixOf(Reconstruct(chunkOut, chunkIn.chunkOverlap), chunkIn.content)

\* C23, amended: for every input text none of whose windows begins or ends
\* with whitespace, the chunks put together again, each chunk after the first
\* without its leading `overlap` characters, are the original text.
C23_ReconstructionOfUntrimmed ==
    (chunkOut # << >> /\ NoOuterBlanks(chunkIn))
      => Reconstruct(chunkOut, chunkIn.chunkOverlap) = chunkIn.content

\* a text with a blank inside was cut into three overlapping chunks, the last
\* one shorter than the others, and no window was trimmed
C23_Witness ==
    /\ Len(chunkOut) = 3
    /\ chunkIn.chunkOverlap = 1
    /\ chunkIn.chunkSize = 3
    /\ Len(chunkOut[3]) = 1
    /\ NoOuterBlanks(chunkIn)
    /\ \E k \in 1..Len(chunkIn.content) : chunkIn.content[k] = " "

\* the Registry and the Blob Store are reachable from some point on: no call
\* of a tick fails any more
StayReachable == <>[][~TimerSyncFails]_vars
StaleWithTimer == LiveTimers > 0 /\ isStale(version, localVersion)
FreshOrShutdown == ~isStale(version, localVersion) \/ LiveTimers = 0

\* C24: a failed background syncIfStale() leaves the interval timer set, so
\* the next tick calls syncIfStale() again; if the cache is stale while the
\* timer is set and the Registry and Blob Store stay reachable from some
\* point on, the cache becomes fresh, unless shutdown() is called first.
C24_RetryOnNextTick ==
    /\ [][TimerSyncFails => LiveTimers' = LiveTimers]_vars
    /\ StayReachable => (StaleWithTimer ~> FreshOrShutdown)

\* a resync started by a tick has just failed, the cache is stale, the timer
\* is still set and the other tick has found no call in flight
C24_Witness ==
    /\ result.outcome \in {"registry_unavailable", "blob_fetch_failed"}
    /\ StaleWithTimer
    /\ \E c \in TimerCallers : call[c].pc = "stats"

\* C25: at most one background sync timer is scheduled at any time, whatever
\* the sequence and overlap of initialize() and shutdown() calls; once a
\* shutdown() that was the last call begun has returned, none is scheduled.
C25_AtMostOneTimer ==
    /\ LiveTimers <= 1
    /\ (lastCalled = "shutdown" /\ \A c \in ShutdownCalls : AtRest(c)) => LiveTimers = 0

\* C26: total_documents is the number of entries of the documents table; it
\* goes up by 1 exactly on a committed add_document, down by 1 exactly on a
\* committed remove_document, is left alone by update_document_vectors and by
\* every aborted call, and never goes below 0.
C26_CountMatchesTable ==
    /\ [](total_documents = Cardinality(DOMAIN documents) /\ total_documents >= 0)
    /\ [][regVars' # regVars
           => /\ (tx'.fn = "add_document" /\ Committed(tx'))
                   <=> total_documents' = total_documents + 1
              /\ (tx'.fn = "remove_document" /\ Committed(tx'))
                   <=> total_documents' = total_documents - 1
              /\ (tx'.fn = "update_document_vectors" \/ ~Committed(tx'))
                   => /\ total_documents' = total_documents
                      /\ DOMAIN documents' = DOMAIN documents]_vars

\* the only document of the registry was removed: the count is back at 0 and
\* the table is empty
C26_Witness ==
    /\ tx.fn = "remove_document"
    /\ Committed(tx)
    /\ total_documents = 0
    /\ DOMAIN documents = {}

\* C27: update_document_vectors and remove_document commit only when the
\* sender is the owner recorded for the document; with any other sender they
\* abort with E_NOT_OWNER and leave the record, total_documents and version
\* as they were; no call changes the owner of a record.
C27_OwnerOnlyMutation ==
    [][/\ \A s \in Senders, f \in FileNames :
            /\ (remove_document(s, f) /\ Committed(tx'))
                 => (f \in DOMAIN documents /\ documents[f].owner = s)
            /\ (\E vb \in VectorBlobIds, n \in ChunkCounts :
                    update_document_vectors(s, f, vb, n) /\ Committed(tx'))
                 => (f \in DOMAIN documents /\ documents[f].owner = s)
            /\ (/\ f \in DOMAIN documents
                /\ documents[f].owner # s
                /\ \/ remove_document(s, f)
                   \/ \E vb \in VectorBlobIds, n \in ChunkCounts :
                         update_document_vectors(s, f, vb, n))
                 => /\ tx'.abort = {E_NOT_OWNER}
                    /\ documents' = documents
                    /\ total_documents' = total_documents
                    /\ version' = version
       /\ \A f \in DOMAIN documents \cap DOMAIN documents' :
            documents'[f].owner = documents[f].owner]_vars

\* a sender other than the owner has just tried to remove or update a
\* document: the call aborted and the document is still recorded
C27_Witness ==
    /\ tx.abort = {E_NOT_OWNER}
    /\ \E f \in DOMAIN documents : documents[f].owner # ServerAddress
    /\ total_documents = 1

\* C28: once a set of addChatToIndex calls with distinct chat ids has
\* completed (every blob fetch and upload having succeeded, no other call
\* made), the index the cached blob id points to holds every added chat.
C28_NoLostUpdate ==
    (/\ \A c \in ChatCalls : chatCalls[c].pc \in {"idle", "done"}
     /\ \A c \in ChatCalls :
          chatCalls[c].pc = "done"
            => chatCalls[c].op = "addChatToIndex" /\ chatCalls[c].fetch # "failed"
     /\ \A c, d \in ChatCalls :
          (c # d /\ chatCalls[c].pc = "done" /\ chatCalls[d].pc = "done")
            => chatCalls[c].chatId # chatCalls[d].chatId)
      => \A c \in ChatCalls :
           chatCalls[c].pc = "done"
             => \E i \in 1..Len(CurrentIndex) :
                  CurrentIndex[i].chatId = chatCalls[c].chatId

\* C29: when the fetch of the index blob failed during addChatToIndex or
\* deleteChatFromIndex, the index that the call saves still holds the chats
\* of the index it was called on, other than the one it deletes.
C29_FetchFailureKeepsIndex ==
    \A c \in ChatCalls :
        (/\ chatCalls[c].pc = "done"
         /\ chatCalls[c].op \in IndexOps
         /\ chatCalls[c].fetch = "failed")
          => \A i \in 1..Len(indexBlobs[chatCalls[c].from]) :
               LET chat == indexBlobs[chatCalls[c].from][i]
               IN  \/ /\ chatCalls[c].op = "deleteChatFromIndex"
                      /\ chat.chatId = chatCalls[c].chatId
                   \/ \E k \in 1..Len(indexBlobs[chatCalls[c].saved]) :
                         indexBlobs[chatCalls[c].saved][k].chatId = chat.chatId

\* C30: as long as the cache was neither cleared nor set from outside, at
\* most one registry is created for the user and all calls that returned
\* are bound to the same registry id.
C30_OneRegistryPerUser ==
    ~cacheTouched
      => /\ registriesCreated <= 1
         /\ \A c, d \in ServiceCalls :
              (serviceCalls[c].pc = "returned" /\ serviceCalls[d].pc = "returned")
                => serviceCalls[c].registryId = serviceCalls[d].registryId

====
